---- MODULE Spec2Model ----
(***************************************************************************)
(* A model of anvil-firebase: the server gateway (server_code/server.py),  *)
(* the client gateway (client_code/client.py), the message model           *)
(* (client_code/messages.py) and the validators                            *)
(* (client_code/validators.py).                                            *)
(*                                                                         *)
(* Python values are tagged records: the field t is the Python type name.  *)
(* A call either returns a value, Ok(v), or raises, Raise(e).              *)
(***************************************************************************)
EXTENDS Integers, Sequences, FiniteSets, TLC

\* ------------------------------------------------------------------ values

PyNone == [t |-> "NoneType"]
PyStr(s) == [t |-> "str", s |-> s]
PyInt(i) == [t |-> "int", i |-> i]
PyBool(b) == [t |-> "bool", b |-> b]
PyList(l) == [t |-> "list", l |-> l]
\* a dict is its items in insertion order: a sequence of <<key, value>>
PyDict(items) == [t |-> "dict", items |-> items]
PyException(cls, msg) == [t |-> "Exception", cls |-> cls, msg |-> msg]

Ok(v) == [ok |-> TRUE, val |-> v]
Raise(e) == [ok |-> FALSE, exc |-> e]

\* bool(v): Python truthiness; instances of the model classes are truthy
Truthy(v) ==
    CASE v.t = "NoneType" -> FALSE
      [] v.t = "str" -> v.s # ""
      [] v.t = "int" -> v.i # 0
      [] v.t = "bool" -> v.b
      [] v.t = "list" -> Len(v.l) > 0
      [] v.t = "dict" -> Len(v.items) > 0
      [] OTHER -> TRUE

\* isinstance(v, cls): bool is a subclass of int, SimpleMessage of Message
isinstance(v, cls) ==
    \/ v.t = cls
    \/ v.t = "bool" /\ cls = "int"
    \/ v.t = "SimpleMessage" /\ cls = "Message"

\* dict.get(key) with the default None
dict_get(d, key) ==
    LET hit == {i \in 1..Len(d.items) : d.items[i][1] = key}
    IN IF hit = {} THEN PyNone ELSE d.items[CHOOSE i \in hit : TRUE][2]

\* d[key] = value: replaces the value in place, or appends a new item
dict_set(d, key, value) ==
    LET hit == {i \in 1..Len(d.items) : d.items[i][1] = key}
    IN IF hit = {}
       THEN PyDict(Append(d.items, <<key, value>>))
       ELSE PyDict([i \in 1..Len(d.items) |->
                      IF i \in hit THEN <<key, value>> ELSE d.items[i]])

\* str(v) for the primitive values the model uses
Digit(n) == SubSeq("0123456789", n + 1, n + 1)

RECURSIVE NatStr(_)
NatStr(n) == IF n < 10 THEN Digit(n) ELSE NatStr(n \div 10) \o Digit(n % 10)

str(v) ==
    CASE v.t = "str" -> v.s
      [] v.t = "int" -> IF v.i < 0 THEN "-" \o NatStr(-v.i) ELSE NatStr(v.i)
      [] v.t = "bool" -> IF v.b THEN "True" ELSE "False"
      [] v.t = "NoneType" -> "None"
      [] v.t = "Exception" -> v.msg
      [] OTHER -> "<" \o v.t \o ">"

\* ------------------------------------------------------------- validators

validate_string(string, prop_name, optional) ==
    IF string = PyNone /\ ~optional
    THEN Raise(PyException("ValueError", prop_name \o " is required."))
    ELSE IF optional /\ ~Truthy(string) THEN Ok(PyNone)
    ELSE IF ~isinstance(string, "str")
    THEN Raise(PyException("TypeError", prop_name \o " must be a string."))
    ELSE Ok(string)

validate_int(integer, prop_name, optional) ==
    IF integer = PyNone /\ ~optional
    THEN Raise(PyException("ValueError", prop_name \o " is required."))
    ELSE IF optional /\ ~Truthy(integer) THEN Ok(PyNone)
    ELSE IF ~isinstance(integer, "int")
    THEN Raise(PyException("TypeError", prop_name \o " must be an integer."))
    ELSE Ok(integer)

validate_list(lst, prop_name, strings_only, optional) ==
    IF lst = PyNone /\ ~optional
    THEN Raise(PyException("ValueError", prop_name \o " is required."))
    ELSE IF optional /\ ~Truthy(lst) THEN Ok(PyNone)
    ELSE IF ~isinstance(lst, "list")
    THEN Raise(PyException("TypeError", prop_name \o " must be a list."))
    ELSE IF strings_only /\ ~(\A i \in 1..Len(lst.l) : isinstance(lst.l[i], "str"))
    THEN Raise(PyException("TypeError",
                           "All items in " \o prop_name \o " must be strings."))
    ELSE Ok(lst)

validate_bool(boolean, prop_name, optional) ==
    IF boolean = PyNone
    THEN IF optional THEN Ok(PyNone)
         ELSE Raise(PyException("ValueError", prop_name \o " is required."))
    ELSE IF ~isinstance(boolean, "bool")
    THEN Raise(PyException("TypeError", prop_name \o " must be a boolean."))
    ELSE Ok(boolean)

validate_dict(dct, prop_name, strings_only, optional) ==
    IF dct = PyNone /\ ~optional
    THEN Raise(PyException("ValueError", prop_name \o " is required."))
    ELSE IF optional /\ ~Truthy(dct) THEN Ok(PyNone)
    ELSE IF ~isinstance(dct, "dict")
    THEN Raise(PyException("TypeError", prop_name \o " must be a dictionary."))
    ELSE IF strings_only
            /\ ~(\A i \in 1..Len(dct.items) : isinstance(dct.items[i][1], "str"))
    THEN Raise(PyException("TypeError",
                           "All keys in " \o prop_name \o " must be strings."))
    ELSE Ok(dct)

validate_specific_class(obj, prop_name, cls, optional) ==
    IF obj = PyNone /\ ~optional
    THEN Raise(PyException("ValueError", prop_name \o " is required."))
    ELSE IF optional /\ ~Truthy(obj) THEN Ok(PyNone)
    ELSE IF ~isinstance(obj, cls)
    THEN Raise(PyException("TypeError",
                           prop_name \o " must be an instance of " \o cls \o "."))
    ELSE Ok(obj)

\* re.match(r"^https?:\/\/[^\s\/$?.#].[^\s]*$", url), with " " the whitespace
UrlMatch(s) ==
    LET p == IF Len(s) >= 8 /\ SubSeq(s, 1, 8) = "https://" THEN 8
             ELSE IF Len(s) >= 7 /\ SubSeq(s, 1, 7) = "http://" THEN 7
             ELSE 0
    IN /\ p > 0
       /\ Len(s) >= p + 2
       /\ SubSeq(s, p + 1, p + 1) \notin {" ", "/", "$", "?", ".", "#"}
       /\ \A i \in (p + 3)..Len(s) : SubSeq(s, i, i) # " "

\* re.match raises TypeError for a value that is not a string
validate_url(url, prop_name, optional) ==
    IF url = PyNone /\ ~optional
    THEN Raise(PyException("ValueError", prop_name \o " is required."))
    ELSE IF url = PyNone THEN Ok(PyNone)
    ELSE IF ~isinstance(url, "str")
    THEN Raise(PyException("TypeError", "expected string or bytes-like object"))
    ELSE IF ~UrlMatch(url.s)
    THEN Raise(PyException("ValueError", prop_name \o " must be a valid URL."))
    ELSE Ok(url)

validate_string_options(string, prop_name, options, optional) ==
    IF string = PyNone /\ ~optional
    THEN Raise(PyException("ValueError", prop_name \o " is required."))
    ELSE IF optional /\ ~Truthy(string) THEN Ok(PyNone)
    ELSE IF ~isinstance(string, "str")
    THEN Raise(PyException("TypeError", prop_name \o " must be a string."))
    ELSE IF string.s \notin options
    THEN Raise(PyException("ValueError", prop_name \o " must be one of the options."))
    ELSE Ok(string)

validate_callable(func, prop_name, optional) ==
    IF func = PyNone /\ ~optional
    THEN Raise(PyException("ValueError", prop_name \o " is required."))
    ELSE IF optional /\ ~Truthy(func) THEN Ok(PyNone)
    ELSE IF func.t # "function"
    THEN Raise(PyException("TypeError", prop_name \o " must be a callable."))
    ELSE Ok(func)

\* validate_list_of_strings that returns None for an empty optional value, as
\* validate_list does
validate_list_of_strings_none(topics, prop_name, optional) ==
    IF topics = PyNone /\ ~optional
    THEN Raise(PyException("ValueError", prop_name \o " is required."))
    ELSE IF optional /\ ~Truthy(topics) THEN Ok(PyNone)
    ELSE IF isinstance(topics, "str") THEN Ok(PyList(<<topics>>))
    ELSE IF ~isinstance(topics, "list")
    THEN Raise(PyException("TypeError", prop_name \o " must be a list."))
    ELSE IF ~(\A i \in 1..Len(topics.l) : isinstance(topics.l[i], "str"))
    THEN Raise(PyException("TypeError", "All " \o prop_name \o " must be strings."))
    ELSE Ok(topics)

validate_list_of_strings(topics, prop_name, optional) ==
    IF topics = PyNone /\ ~optional
    THEN Raise(PyException("ValueError", prop_name \o " is required."))
    ELSE IF optional /\ ~Truthy(topics) THEN Ok(PyList(<<>>))
    ELSE IF isinstance(topics, "str") THEN Ok(PyList(<<topics>>))
    ELSE IF ~isinstance(topics, "list")
    THEN Raise(PyException("TypeError", prop_name \o " must be a list."))
    ELSE IF ~(\A i \in 1..Len(topics.l) : isinstance(topics.l[i], "str"))
    THEN Raise(PyException("TypeError", "All " \o prop_name \o " must be strings."))
    ELSE Ok(topics)

validate_list_of_specific_class(objs, prop_name, cls, optional) ==
    IF objs = PyNone /\ ~optional
    THEN Raise(PyException("ValueError", prop_name \o " is required."))
    ELSE IF optional /\ ~Truthy(objs) THEN Ok(PyList(<<>>))
    ELSE IF ~isinstance(objs, "list")
    THEN Raise(PyException("TypeError", prop_name \o " must be a list."))
    ELSE IF ~(\A i \in 1..Len(objs.l) : isinstance(objs.l[i], cls))
    THEN Raise(PyException("TypeError",
             "All items in " \o prop_name \o " must be instances of " \o cls \o "."))
    ELSE Ok(objs)

\* the first failed validation of a constructor, in the order of its statements
FirstRaise(results) ==
    LET bad == {i \in 1..Len(results) : ~results[i].ok}
    IN results[CHOOSE i \in bad : \A j \in bad : i <= j]

AllOk(results) == \A i \in 1..Len(results) : results[i].ok

\* ------------------------------------------------------------- serializer

\* DataSerializer.serialize(obj, attributes) with ignore_nulls=True: the
\* attribute values themselves, nested model objects included
serialize(obj, attributes) ==
    LET kept == SelectSeq(attributes, LAMBDA a : obj[a] # PyNone)
    IN PyDict([i \in 1..Len(kept) |-> <<PyStr(kept[i]), obj[kept[i]]>>])

\* ---------------------------------------------------------- message model

WebpushFCMOptions_init(link) ==
    LET r == validate_url(link, "link", TRUE)
    IN IF r.ok THEN Ok([t |-> "WebpushFCMOptions", link |-> r.val]) ELSE r

WebpushFCMOptions_to_dict(self) == serialize(self, <<"link">>)

WebpushNotificationAction_init(action, title, icon) ==
    LET rs == << validate_string(action, "action", FALSE),
                 validate_string(title, "title", FALSE),
                 validate_url(icon, "icon", TRUE) >>
    IN IF AllOk(rs)
       THEN Ok([t |-> "WebpushNotificationAction", action |-> rs[1].val,
                title |-> rs[2].val, icon |-> rs[3].val])
       ELSE FirstRaise(rs)

WebpushNotificationAction_to_dict(self) ==
    serialize(self, <<"action", "title", "icon">>)

WebpushNotificationAttrs ==
    << "title", "body", "icon", "actions", "badge", "data", "direction", "image",
       "language", "renotify", "require_interaction", "silent", "tag",
       "timestamp_millis", "vibrate", "custom_data" >>

\* the keyword defaults of WebpushNotification.__init__
WebpushNotificationDefaults ==
    [ title |-> PyNone, body |-> PyNone, icon |-> PyNone, actions |-> PyNone,
      badge |-> PyNone, data |-> PyNone, direction |-> PyStr("auto"),
      image |-> PyNone, language |-> PyNone, renotify |-> PyBool(FALSE),
      require_interaction |-> PyBool(FALSE), silent |-> PyBool(FALSE),
      tag |-> PyNone, timestamp_millis |-> PyNone, vibrate |-> PyNone,
      custom_data |-> PyNone ]

WebpushNotification_init(a) ==
    LET rs == << validate_string(a.title, "title", TRUE),
                 validate_string(a.body, "body", TRUE),
                 validate_url(a.icon, "icon", TRUE),
                 validate_list_of_specific_class(a.actions, "actions",
                                                 "WebpushNotificationAction", TRUE),
                 validate_url(a.badge, "badge", TRUE),
                 validate_dict(a.data, "data", TRUE, TRUE),
                 validate_string_options(a.direction, "direction",
                                         {"auto", "ltr", "rtl"}, TRUE),
                 validate_url(a.image, "image", TRUE),
                 validate_string(a.language, "language", TRUE),
                 validate_bool(a.renotify, "renotify", TRUE),
                 validate_bool(a.require_interaction, "require_interaction", TRUE),
                 validate_bool(a.silent, "silent", TRUE),
                 validate_string(a.tag, "tag", TRUE),
                 validate_int(a.timestamp_millis, "timestamp_millis", TRUE),
                 validate_list(a.vibrate, "vibrate", TRUE, TRUE),
                 validate_dict(a.custom_data, "custom_data", TRUE, TRUE) >>
    IN IF AllOk(rs)
       THEN Ok([ t |-> "WebpushNotification",
                 title |-> rs[1].val, body |-> rs[2].val, icon |-> rs[3].val,
                 actions |-> rs[4].val, badge |-> rs[5].val, data |-> rs[6].val,
                 direction |-> rs[7].val, image |-> rs[8].val,
                 language |-> rs[9].val, renotify |-> rs[10].val,
                 require_interaction |-> rs[11].val, silent |-> rs[12].val,
                 tag |-> rs[13].val, timestamp_millis |-> rs[14].val,
                 vibrate |-> rs[15].val, custom_data |-> rs[16].val ])
       ELSE FirstRaise(rs)

WebpushNotification_to_dict(self) == serialize(self, WebpushNotificationAttrs)

WebpushConfig_init(headers, data, notification, fcm_options) ==
    LET rs == << validate_dict(headers, "headers", TRUE, TRUE),
                 validate_dict(data, "data", TRUE, TRUE),
                 validate_specific_class(notification, "notification",
                                         "WebpushNotification", TRUE),
                 validate_specific_class(fcm_options, "fcm_options",
                                         "WebpushFCMOptions", TRUE) >>
    IN IF AllOk(rs)
       THEN Ok([ t |-> "WebpushConfig", headers |-> rs[1].val, data |-> rs[2].val,
                 notification |-> rs[3].val, fcm_options |-> rs[4].val ])
       ELSE FirstRaise(rs)

WebpushConfig_to_dict(self) ==
    serialize(self, <<"headers", "data", "notification", "fcm_options">>)

MessageAttrs == <<"data", "webpush", "fcm_options", "token", "topic", "condition">>

\* Message.__init__; cls is the class being constructed (Message or a subclass)
Message_init(cls, data, webpush, fcm_options, token, topic, condition) ==
    LET rs == << validate_dict(data, "data", TRUE, TRUE),
                 validate_specific_class(webpush, "webpush", "WebpushConfig", TRUE),
                 validate_specific_class(fcm_options, "fcm_options",
                                         "WebpushFCMOptions", TRUE),
                 validate_string(token, "token", TRUE),
                 validate_string(topic, "topic", TRUE),
                 validate_string(condition, "condition", TRUE) >>
    IN IF AllOk(rs)
       THEN Ok([ t |-> cls, data |-> rs[1].val, webpush |-> rs[2].val,
                 fcm_options |-> rs[3].val, token |-> rs[4].val,
                 topic |-> rs[5].val, condition |-> rs[6].val ])
       ELSE FirstRaise(rs)

Message_to_dict(self) == serialize(self, MessageAttrs)

MulticastMessage_init(data, webpush, fcm_options, tokens, condition) ==
    LET rs == << validate_dict(data, "data", TRUE, TRUE),
                 validate_specific_class(webpush, "webpush", "WebpushConfig", TRUE),
                 validate_specific_class(fcm_options, "fcm_options",
                                         "WebpushFCMOptions", TRUE),
                 validate_list(tokens, "tokens", TRUE, TRUE),
                 validate_string(condition, "condition", TRUE) >>
    IN IF AllOk(rs)
       THEN Ok([ t |-> "MulticastMessage", data |-> rs[1].val,
                 webpush |-> rs[2].val, fcm_options |-> rs[3].val,
                 tokens |-> rs[4].val, condition |-> rs[5].val ])
       ELSE FirstRaise(rs)

MulticastMessage_to_dict(self) ==
    serialize(self, <<"data", "webpush", "fcm_options", "tokens", "condition">>)

\* SimpleMessage.__init__: a holds title, body, token, topic, condition, data,
\* headers, link and the WebpushNotification keywords
SimpleMessage_init(a) ==
    LET notification == WebpushNotification_init(a)
        options == WebpushFCMOptions_init(a.link)
    IN IF ~notification.ok THEN notification
       ELSE IF ~options.ok THEN options
       ELSE LET webpush == WebpushConfig_init(a.headers, PyNone,
                                              notification.val, options.val)
            IN IF ~webpush.ok THEN webpush
               ELSE Message_init("SimpleMessage", a.data, webpush.val, PyNone,
                                 a.token, a.topic, a.condition)

SimpleMessage_to_dict(self) == serialize(self, MessageAttrs)

\* ------------------------------------------------------------ response types

\* str.split(sep): the parts between the non-overlapping occurrences of sep,
\* found left to right
RECURSIVE split(_, _)
split(s, sep) ==
    LET n == Len(sep)
        idx == {i \in 1..(Len(s) - n + 1) : SubSeq(s, i, i + n - 1) = sep}
    IN IF idx = {} THEN <<s>>
       ELSE LET i == CHOOSE k \in idx : \A j \in idx : k <= j
            IN <<SubSeq(s, 1, i - 1)>> \o split(SubSeq(s, i + n, Len(s)), sep)

\* str.lower() on ASCII
LowerChar(c) ==
    LET up == "ABCDEFGHIJKLMNOPQRSTUVWXYZ"
        lo == "abcdefghijklmnopqrstuvwxyz"
        hit == {i \in 1..26 : SubSeq(up, i, i) = c}
    IN IF hit = {} THEN c ELSE LET i == CHOOSE k \in hit : TRUE IN SubSeq(lo, i, i)

RECURSIVE lower(_)
lower(s) ==
    IF s = "" THEN "" ELSE LowerChar(SubSeq(s, 1, 1)) \o lower(SubSeq(s, 2, Len(s)))

\* an object of the SDK whose attributes are read with getattr: attrs is a dict
\* from attribute name to value, a missing name raises AttributeError
SdkObject(attrs) == [t |-> "object", attrs |-> PyDict(attrs)]

hasattr(obj, name) ==
    /\ "attrs" \in DOMAIN obj
    /\ \E i \in 1..Len(obj.attrs.items) : obj.attrs.items[i][1] = PyStr(name)

getattr(obj, name) ==
    IF hasattr(obj, name) THEN Ok(dict_get(obj.attrs, PyStr(name)))
    ELSE Raise(PyException("AttributeError", "object has no attribute " \o name))

Response_init(success, message_id, exception) ==
    LET rs == << validate_bool(success, "success", FALSE),
                 validate_string(message_id, "message_id", TRUE),
                 validate_string(exception, "exception", TRUE) >>
    IN IF AllOk(rs)
       THEN Ok([ t |-> "Response", success |-> rs[1].val,
                 message_id |-> rs[2].val, exception |-> rs[3].val ])
       ELSE FirstRaise(rs)

\* _extract_success comparing the string as it is
Response_extract_success_case_sensitive(response) ==
    LET got == getattr(response, "success")
    IN IF ~got.ok THEN PyBool(FALSE)
       ELSE IF isinstance(got.val, "str")
       THEN PyBool(got.val.s \in {"1", "true"})
       ELSE IF isinstance(got.val, "int")
       THEN PyBool(IF got.val.t = "bool" THEN got.val.b ELSE got.val.i = 1)
       ELSE PyBool(FALSE)

Response_extract_success(response) ==
    LET got == getattr(response, "success")
    IN IF ~got.ok THEN PyBool(FALSE)
       ELSE IF isinstance(got.val, "str")
       THEN PyBool(lower(got.val.s) \in {"1", "true"})
       ELSE IF isinstance(got.val, "int")
       THEN PyBool(IF got.val.t = "bool" THEN got.val.b ELSE got.val.i = 1)
       ELSE PyBool(FALSE)

Response_extract_attribute(response, attribute) ==
    LET got == getattr(response, attribute)
    IN IF got.ok THEN got.val ELSE PyNone

Response_from_fcm_response(response) ==
    IF isinstance(response, "str")
    THEN LET parts == split(response.s, "/messages/")
         IN IF Len(parts) >= 2
            THEN Response_init(PyBool(TRUE), PyStr(parts[2]), PyNone)
            ELSE Response_init(PyBool(FALSE), PyNone, PyNone)
    ELSE IF isinstance(response, "Exception")
    THEN Response_init(PyBool(FALSE), PyNone, PyStr(str(response)))
    ELSE LET success == Response_extract_success(response)
             message_id == Response_extract_attribute(response, "message_id")
             e1 == Response_extract_attribute(response, "exception")
             e2 == IF Truthy(e1) THEN e1
                   ELSE Response_extract_attribute(response, "error")
             exception == IF e2.t \in {"str", "NoneType"} THEN e2
                          ELSE PyStr(str(e2))
         IN Response_init(success, message_id, exception)

BatchResponse_init(responses, success_count, failure_count) ==
    LET rs == << validate_list(responses, "responses", FALSE, FALSE),
                 validate_int(success_count, "success_count", FALSE),
                 validate_int(failure_count, "failure_count", FALSE) >>
    IN IF AllOk(rs)
       THEN Ok([ t |-> "BatchResponse", responses |-> rs[1].val,
                 success_count |-> rs[2].val, failure_count |-> rs[3].val ])
       ELSE FirstRaise(rs)

\* from_fcm_response counting the successes and failures of its items
BatchResponse_from_fcm_response_counting(response) ==
    LET items == getattr(response, "responses")
        resp_items == IF items.ok THEN items.val ELSE PyList(<<>>)
    IN IF resp_items.t # "list"
       THEN Raise(PyException("TypeError", "object is not iterable"))
       ELSE LET rs == [i \in 1..Len(resp_items.l) |->
                         Response_from_fcm_response(resp_items.l[i])]
                won == {i \in 1..Len(rs) : rs[i].ok /\ rs[i].val.success = PyBool(TRUE)}
            IN IF ~AllOk(rs) THEN FirstRaise(rs)
               ELSE BatchResponse_init(
                        PyList([i \in 1..Len(rs) |-> rs[i].val]),
                        PyInt(Cardinality(won)), PyInt(Len(rs) - Cardinality(won)))

BatchResponse_from_fcm_response(response) ==
    LET items == getattr(response, "responses")
        resp_items == IF items.ok THEN items.val ELSE PyList(<<>>)
        sc == getattr(response, "success_count")
        success_count == IF sc.ok THEN sc.val ELSE PyInt(0)
        fc == getattr(response, "failure_count")
        failure_count == IF fc.ok THEN fc.val ELSE PyInt(0)
    IN IF resp_items.t # "list"
       THEN Raise(PyException("TypeError", "object is not iterable"))
       ELSE LET rs == [i \in 1..Len(resp_items.l) |->
                         Response_from_fcm_response(resp_items.l[i])]
            IN IF ~AllOk(rs) THEN FirstRaise(rs)
               ELSE BatchResponse_init(
                        PyList([i \in 1..Len(rs) |-> rs[i].val]),
                        success_count, failure_count)

TopicManagementResponse_init(success_count, failure_count, errors) ==
    LET rs == << validate_int(success_count, "success_count", FALSE),
                 validate_int(failure_count, "failure_count", FALSE),
                 validate_list(errors, "errors", TRUE, FALSE) >>
    IN IF AllOk(rs)
       THEN Ok([ t |-> "TopicManagementResponse", success_count |-> rs[1].val,
                 failure_count |-> rs[2].val, errors |-> rs[3].val ])
       ELSE FirstRaise(rs)

\* the three attributes are read without a guard
TopicManagementResponse_from_fcm_response(response) ==
    LET rs == << getattr(response, "success_count"),
                 getattr(response, "failure_count"),
                 getattr(response, "errors") >>
    IN IF AllOk(rs)
       THEN TopicManagementResponse_init(rs[1].val, rs[2].val, rs[3].val)
       ELSE FirstRaise(rs)

\* --------------------------------------------------- server: compilation

\* firebase_admin.messaging constructors keep their keyword arguments; kw is
\* the dict of the keywords passed
messaging_object(cls, kw) == [t |-> "messaging." \o cls, kw |-> kw]

\* firebase_admin.messaging.Message(data, webpush, fcm_options, token, topic,
\* condition): a keyword that is not passed keeps its default None
messaging_Message(data, webpush, fcm_options, token, topic, condition) ==
    [ t |-> "messaging.Message", data |-> data, webpush |-> webpush,
      fcm_options |-> fcm_options, token |-> token, topic |-> topic,
      condition |-> condition ]

messaging_MulticastMessage(data, webpush, fcm_options, tokens) ==
    [ t |-> "messaging.MulticastMessage", data |-> data, webpush |-> webpush,
      fcm_options |-> fcm_options, tokens |-> tokens ]

compile_webpush_notification_actions(message_dict) ==
    LET got == dict_get(message_dict, PyStr("actions"))
        actions == IF Truthy(got) THEN got ELSE PyList(<<>>)
        kept == SelectSeq(actions.l,
                          LAMBDA a : isinstance(a, "WebpushNotificationAction"))
        fcm_actions == [i \in 1..Len(kept) |->
                          messaging_object("WebpushNotificationAction",
                                           WebpushNotificationAction_to_dict(kept[i]))]
    IN IF Len(fcm_actions) > 0 THEN PyList(fcm_actions) ELSE PyNone

compile_webpush_notification(message_dict) ==
    LET got == dict_get(message_dict, PyStr("notification"))
        notification == IF isinstance(got, "WebpushNotification")
                        THEN WebpushNotification_to_dict(got) ELSE got
    IN IF Truthy(notification)
       THEN messaging_object("WebpushNotification",
                dict_set(notification, PyStr("actions"),
                         compile_webpush_notification_actions(notification)))
       ELSE PyNone

compile_webpush_config(message_dict) ==
    LET got == dict_get(message_dict, PyStr("webpush"))
        webpush == IF isinstance(got, "WebpushConfig")
                   THEN WebpushConfig_to_dict(got) ELSE got
    IN IF Truthy(webpush)
       THEN messaging_object("WebpushConfig",
                dict_set(webpush, PyStr("notification"),
                         compile_webpush_notification(webpush)))
       ELSE PyNone

compile_fcm_options(message_dict) ==
    LET got == dict_get(message_dict, PyStr("fcm_options"))
        fcm_options == IF isinstance(got, "WebpushFCMOptions")
                       THEN WebpushFCMOptions_to_dict(got) ELSE got
    IN IF Truthy(fcm_options)
       THEN messaging_object("WebpushFCMOptions", fcm_options)
       ELSE PyNone

IsPrimitive(v) == v.t \in {"str", "int", "bool", "float"}

\* _process_data keeping the values as they are
RECURSIVE process_items_verbatim(_, _)
process_items_verbatim(items, acc) ==
    IF items = <<>> THEN acc
    ELSE LET key == items[1][1]
             value == items[1][2]
         IN process_items_verbatim(Tail(items),
                IF IsPrimitive(key) /\ IsPrimitive(value)
                THEN dict_set(acc, PyStr(str(key)), value)
                ELSE acc)

RECURSIVE process_items(_, _)
process_items(items, acc) ==
    IF items = <<>> THEN acc
    ELSE LET key == items[1][1]
             value == items[1][2]
         IN process_items(Tail(items),
                IF IsPrimitive(key) /\ IsPrimitive(value)
                THEN dict_set(acc, PyStr(str(key)), PyStr(str(value)))
                ELSE acc)

process_data(data) ==
    IF ~isinstance(data, "dict") THEN PyDict(<<>>)
    ELSE process_items(data.items, PyDict(<<>>))

\* compile_message without the precedence of the token: the topic is always
\* passed on
compile_message_keeps_topic(message) ==
    LET message_dict == Message_to_dict(message)
    IN messaging_Message(process_data(dict_get(message_dict, PyStr("data"))),
                         compile_webpush_config(message_dict),
                         compile_fcm_options(message_dict),
                         dict_get(message_dict, PyStr("token")),
                         dict_get(message_dict, PyStr("topic")), PyNone)

compile_message(message) ==
    LET message_dict == Message_to_dict(message)
        token == dict_get(message_dict, PyStr("token"))
        topic == IF Truthy(token) THEN PyNone
                 ELSE dict_get(message_dict, PyStr("topic"))
        data == process_data(dict_get(message_dict, PyStr("data")))
    IN messaging_Message(data, compile_webpush_config(message_dict),
                         compile_fcm_options(message_dict), token, topic, PyNone)

compile_multicast_message(message) ==
    LET message_dict == MulticastMessage_to_dict(message)
    IN messaging_MulticastMessage(
           process_data(dict_get(message_dict, PyStr("data"))),
           compile_webpush_config(message_dict),
           compile_fcm_options(message_dict),
           dict_get(message_dict, PyStr("tokens")))

\* ------------------------------------------------------ server: operations

\* What a server call did: result is Ok(value) or Raise(exception), calls the
\* firebase_admin.messaging calls it made, in order.
Done(result, calls) == [result |-> result, calls |-> calls]

SdkCall(fn, arg) == [fn |-> fn, arg |-> arg]

\* send without its try/except: an exception of the SDK call reaches the caller
FirebaseMessaging_send_uncaught(message, sdk_outcome) ==
    IF ~(isinstance(message, "Message") \/ isinstance(message, "SimpleMessage"))
    THEN Done(Raise(PyException("TypeError",
             "The message must be an instance of Message or SimpleMessage.")), <<>>)
    ELSE LET calls == <<SdkCall("send", compile_message(message))>>
         IN IF ~sdk_outcome.ok THEN Done(sdk_outcome, calls)
            ELSE Done(Response_from_fcm_response(sdk_outcome.val), calls)

\* sdk_outcome is the outcome of the SDK call: Ok(value returned) or
\* Raise(exception raised)
FirebaseMessaging_send(message, sdk_outcome) ==
    IF ~(isinstance(message, "Message") \/ isinstance(message, "SimpleMessage"))
    THEN Done(Raise(PyException("TypeError",
             "The message must be an instance of Message or SimpleMessage.")), <<>>)
    ELSE LET compiled == compile_message(message)
             first == IF sdk_outcome.ok
                      THEN Response_from_fcm_response(sdk_outcome.val)
                      ELSE sdk_outcome
             response == IF first.ok THEN first
                         ELSE Response_from_fcm_response(first.exc)
         IN Done(response, <<SdkCall("send", compiled)>>)

\* send_all that drops the elements of another type and sends the rest
FirebaseMessaging_send_all_lenient(messages, sdk_outcome) ==
    LET kept == SelectSeq(messages,
                    LAMBDA m : isinstance(m, "Message")
                               \/ isinstance(m, "SimpleMessage"))
        compiled == [i \in 1..Len(kept) |-> compile_message(kept[i])]
        calls == <<SdkCall("send_all", PyList(compiled))>>
    IN IF ~sdk_outcome.ok THEN Done(sdk_outcome, calls)
       ELSE Done(BatchResponse_from_fcm_response(sdk_outcome.val), calls)

FirebaseMessaging_send_all(messages, sdk_outcome) ==
    IF ~(\A i \in 1..Len(messages) :
            isinstance(messages[i], "Message")
            \/ isinstance(messages[i], "SimpleMessage"))
    THEN Done(Raise(PyException("TypeError",
             "The messages must be instances of Message or SimpleMessage.")), <<>>)
    ELSE LET compiled == [i \in 1..Len(messages) |-> compile_message(messages[i])]
             calls == <<SdkCall("send_all", PyList(compiled))>>
         IN IF ~sdk_outcome.ok THEN Done(sdk_outcome, calls)
            ELSE Done(BatchResponse_from_fcm_response(sdk_outcome.val), calls)

\* send_multicast that catches as send does and builds its result from the
\* exception
FirebaseMessaging_send_multicast_caught(message, sdk_outcome) ==
    IF ~isinstance(message, "MulticastMessage")
    THEN Done(Raise(PyException("TypeError",
             "The message must be an instance of MulticastMessage.")), <<>>)
    ELSE LET compiled == compile_multicast_message(message)
             calls == <<SdkCall("send_multicast", compiled)>>
         IN Done(BatchResponse_from_fcm_response(
                     IF sdk_outcome.ok THEN sdk_outcome.val ELSE sdk_outcome.exc),
                 calls)

FirebaseMessaging_send_multicast(message, sdk_outcome) ==
    IF ~isinstance(message, "MulticastMessage")
    THEN Done(Raise(PyException("TypeError",
             "The message must be an instance of MulticastMessage.")), <<>>)
    ELSE LET compiled == compile_multicast_message(message)
             calls == <<SdkCall("send_multicast", compiled)>>
         IN IF ~sdk_outcome.ok THEN Done(sdk_outcome, calls)
            ELSE Done(BatchResponse_from_fcm_response(sdk_outcome.val), calls)

\* ------------------------------------------------ server: admin credentials

CredentialAttrs ==
    << "type", "project_id", "private_key_id", "private_key", "client_email",
       "client_id", "auth_uri", "token_uri", "auth_provider_x509_cert_url",
       "client_x509_cert_url", "universe_domain" >>

\* the dataclass FCMServiceAccountCredentials: eleven unvalidated fields
FCMServiceAccountCredentials(type) ==
    [ t |-> "FCMServiceAccountCredentials", type |-> PyStr(type),
      project_id |-> PyStr("p"), private_key_id |-> PyStr("kid"),
      private_key |-> PyStr("key"), client_email |-> PyStr("e@p"),
      client_id |-> PyStr("cid"), auth_uri |-> PyStr("https://a"),
      token_uri |-> PyStr("https://t"),
      auth_provider_x509_cert_url |-> PyStr("https://c"),
      client_x509_cert_url |-> PyStr("https://x"),
      universe_domain |-> PyStr("googleapis.com") ]

FCMServiceAccountCredentials_to_dict(self) ==
    PyDict([i \in 1..Len(CredentialAttrs) |->
              <<PyStr(CredentialAttrs[i]), self[CredentialAttrs[i]]>>])

\* the concatenation of parts[lo..hi]
RECURSIVE Join(_, _, _)
Join(parts, lo, hi) ==
    IF lo > hi THEN ""
    ELSE IF lo = hi THEN parts[lo]
    ELSE LET mid == (lo + hi) \div 2
         IN Join(parts, lo, mid) \o Join(parts, mid + 1, hi)

\* json.dumps of a string: quotes and backslashes are escaped
json_escape(s) ==
    Join([i \in 1..Len(s) |->
            LET c == SubSeq(s, i, i)
            IN IF c = "\"" THEN "\\\"" ELSE IF c = "\\" THEN "\\\\" ELSE c],
         1, Len(s))

\* json.dumps(d) for a dict of strings, with the default separators
RECURSIVE json_dumps_items(_)
json_dumps_items(items) ==
    IF items = <<>> THEN ""
    ELSE "\"" \o json_escape(items[1][1].s) \o "\": \""
         \o json_escape(items[1][2].s) \o "\""
         \o (IF Len(items) > 1 THEN ", " ELSE "") \o json_dumps_items(Tail(items))

json_dumps(d) == "{" \o json_dumps_items(d.items) \o "}"

IsSpace(c) == c \in {" ", "\t", "\n", "\r"}

\* the first place from i on where s has no white space
RECURSIVE SkipSpace(_, _)
SkipSpace(s, i) ==
    IF i <= Len(s) /\ IsSpace(SubSeq(s, i, i)) THEN SkipSpace(s, i + 1) ELSE i

\* the regular expression ,\s*(?=}|]) matches at place c of s: a comma, then
\* white space, then a closing brace or bracket
TrailingComma(s, c) ==
    /\ SubSeq(s, c, c) = ","
    /\ LET j == SkipSpace(s, c + 1)
       IN j <= Len(s) /\ SubSeq(s, j, j) \in {"}", "]"}

\* re.sub(r",\s*(?=}|])", "", s): every match, the comma and the white space
\* after it, is removed
remove_trailing_commas(s) ==
    LET Removed(i) ==
            \/ TrailingComma(s, i)
            \/ /\ IsSpace(SubSeq(s, i, i))
               /\ \E c \in 1..(i - 1) :
                     /\ \A k \in (c + 1)..i : IsSpace(SubSeq(s, k, k))
                     /\ TrailingComma(s, c)
    IN Join([i \in 1..Len(s) |-> IF Removed(i) THEN "" ELSE SubSeq(s, i, i)],
            1, Len(s))

JSONDecodeError == PyException("JSONDecodeError", "Expecting value")

\* the backslashes of s that stand in a row right before place j, from place i on
BackslashRun(s, i, j) ==
    Cardinality({k \in i..(j - 1) : \A m \in k..(j - 1) : SubSeq(s, m, m) = "\\"})

\* json.loads: the string literal whose text starts at place i, after its
\* opening quote; it ends at the first quote that no backslash escapes, and
\* next is the place after it
json_string(s, i) ==
    LET ends == {j \in i..Len(s) : /\ SubSeq(s, j, j) = "\""
                                   /\ BackslashRun(s, i, j) % 2 = 0}
    IN IF ends = {} THEN [ok |-> FALSE, val |-> "", next |-> Len(s) + 1]
       ELSE LET j == CHOOSE e \in ends : \A f \in ends : e <= f
                Escapes(k) == SubSeq(s, k, k) = "\\" /\ BackslashRun(s, i, k) % 2 = 0
                known == \A k \in i..(j - 1) :
                            Escapes(k) => SubSeq(s, k + 1, k + 1) \in {"\"", "\\", "/"}
            IN [ ok |-> known,
                 val |-> Join([k \in 1..(j - i) |->
                                 IF Escapes(i + k - 1) THEN ""
                                 ELSE SubSeq(s, i + k - 1, i + k - 1)], 1, j - i),
                 next |-> j + 1 ]

\* json.loads: the pairs of an object from place i on, for objects whose values
\* are strings; a later pair replaces an earlier one with the same key
RECURSIVE json_pairs(_, _, _)
json_pairs(s, i, acc) ==
    LET k == SkipSpace(s, i)
        key == json_string(s, k + 1)
        colon == SkipSpace(s, key.next)
        v == SkipSpace(s, colon + 1)
        value == json_string(s, v + 1)
        after == SkipSpace(s, value.next)
    IN IF ~(k <= Len(s) /\ SubSeq(s, k, k) = "\"") \/ ~key.ok THEN Raise(JSONDecodeError)
       ELSE IF ~(colon <= Len(s) /\ SubSeq(s, colon, colon) = ":") THEN Raise(JSONDecodeError)
       ELSE IF ~(v <= Len(s) /\ SubSeq(s, v, v) = "\"") \/ ~value.ok THEN Raise(JSONDecodeError)
       ELSE IF after > Len(s) THEN Raise(JSONDecodeError)
       ELSE LET found == dict_set(acc, PyStr(key.val), PyStr(value.val))
            IN IF SubSeq(s, after, after) = ","
               THEN json_pairs(s, after + 1, found)
               ELSE IF SubSeq(s, after, after) = "}" /\ SkipSpace(s, after + 1) > Len(s)
               THEN Ok(found)
               ELSE Raise(JSONDecodeError)

\* json.loads(s) for an object whose values are strings
json_loads(s) ==
    LET open == SkipSpace(s, 1)
        first == SkipSpace(s, open + 1)
    IN IF ~(open <= Len(s) /\ SubSeq(s, open, open) = "{") THEN Raise(JSONDecodeError)
       ELSE IF first <= Len(s) /\ SubSeq(s, first, first) = "}"
               /\ SkipSpace(s, first + 1) > Len(s)
       THEN Ok(PyDict(<<>>))
       ELSE json_pairs(s, open + 1, PyDict(<<>>))

\* cls(**json_dict): the dataclass takes exactly its eleven fields
FCMServiceAccountCredentials_new(kw) ==
    LET keys == {kw.items[i][1] : i \in 1..Len(kw.items)}
        names == {PyStr(CredentialAttrs[i]) : i \in 1..Len(CredentialAttrs)}
    IN IF keys # names
       THEN Raise(PyException("TypeError", "__init__() got unexpected or missing arguments"))
       ELSE Ok([a \in {"t"} \cup {CredentialAttrs[i] : i \in 1..Len(CredentialAttrs)} |->
                  IF a = "t" THEN "FCMServiceAccountCredentials"
                  ELSE dict_get(kw, PyStr(a))])

FCMServiceAccountCredentials_from_json_string(json_string_) ==
    LET json_dict == json_loads(remove_trailing_commas(json_string_))
    IN IF ~json_dict.ok
       THEN Raise(PyException("ValueError", "Invalid JSON string"))
       ELSE LET made == FCMServiceAccountCredentials_new(json_dict.val)
            IN IF made.ok THEN made
               ELSE Raise(PyException("Exception", "Error creating temporary file"))

\* get_temp_file_path: files are the temporary files on disk, a path is an index
\* into them. The file is created with delete=False and then written; a failure
\* of either step is re-raised as Exception("Error creating temporary file").
\* A file holds the dict that was dumped into it (PyNone while still empty).
get_temp_file_path(self, file_outcome, files) ==
    CASE file_outcome = "ok" ->
           [ result |-> Ok(Len(files) + 1),
             files |-> Append(files, FCMServiceAccountCredentials_to_dict(self)) ]
      [] file_outcome = "write_fails" ->
           [ result |-> Raise(PyException("Exception",
                                          "Error creating temporary file")),
             files |-> Append(files, PyNone) ]
      [] OTHER ->
           [ result |-> Raise(PyException("Exception",
                                          "Error creating temporary file")),
             files |-> files ]

\* firebase_admin.credentials.Certificate(path): loads the file and raises
\* ValueError unless it is a service-account key
credentials_Certificate(path, files) ==
    IF dict_get(files[path], PyStr("type")) = PyStr("service_account")
    THEN Ok([t |-> "Certificate", path |-> path])
    ELSE Raise(PyException("ValueError", "Invalid service account certificate."))

DEFAULT_APP_NAME == "[DEFAULT]"

\* firebase_admin.initialize_app(cred): registers the default app, and raises
\* ValueError when it is registered already
initialize_app(cred, _apps) ==
    IF DEFAULT_APP_NAME \in _apps
    THEN [ result |-> Raise(PyException("ValueError",
                                        "The default Firebase app already exists.")),
           _apps |-> _apps ]
    ELSE [ result |-> Ok(cred), _apps |-> _apps \cup {DEFAULT_APP_NAME} ]

\* initialize_firebase_admin without the test for an existing app
FirebaseMessaging_initialize_firebase_admin_unguarded(creds, file_outcome, _apps, files) ==
    LET path == get_temp_file_path(creds, file_outcome, files)
        cred == credentials_Certificate(path.result.val, path.files)
        app == initialize_app(cred.val, _apps)
    IN IF ~path.result.ok
       THEN [ result |-> path.result, _apps |-> _apps, files |-> path.files,
              init_calls |-> 0 ]
       ELSE IF ~cred.ok
       THEN [ result |-> cred, _apps |-> _apps, files |-> path.files,
              init_calls |-> 0 ]
       ELSE [ result |-> IF app.result.ok THEN Ok(PyBool(app._apps # {}))
                         ELSE app.result,
              _apps |-> app._apps, files |-> path.files, init_calls |-> 1 ]

\* initialize_firebase_admin that writes the credential file only when no admin
\* app exists
FirebaseMessaging_initialize_firebase_admin_file_when_needed(creds, file_outcome, _apps, files) ==
    IF _apps # {}
    THEN [ result |-> Ok(PyBool(TRUE)), _apps |-> _apps, files |-> files,
           init_calls |-> 0 ]
    ELSE LET path == get_temp_file_path(creds, file_outcome, files)
         IN IF ~path.result.ok
            THEN [ result |-> path.result, _apps |-> _apps, files |-> path.files,
                   init_calls |-> 0 ]
            ELSE LET cred == credentials_Certificate(path.result.val, path.files)
                 IN IF ~cred.ok
                    THEN [ result |-> cred, _apps |-> _apps, files |-> path.files,
                           init_calls |-> 0 ]
                    ELSE LET app == initialize_app(cred.val, _apps)
                         IN [ result |-> IF app.result.ok
                                         THEN Ok(PyBool(app._apps # {}))
                                         ELSE app.result,
                              _apps |-> app._apps, files |-> path.files,
                              init_calls |-> 1 ]

\* initialize_firebase_admin: what it returns or raises, the apps and files after
\* it, and the number of initialize_app invocations it made
FirebaseMessaging_initialize_firebase_admin(creds, file_outcome, _apps, files) ==
    LET path == get_temp_file_path(creds, file_outcome, files)
    IN IF ~path.result.ok
       THEN [ result |-> path.result, _apps |-> _apps, files |-> path.files,
              init_calls |-> 0 ]
       ELSE LET cred == credentials_Certificate(path.result.val, path.files)
            IN IF ~cred.ok
               THEN [ result |-> cred, _apps |-> _apps, files |-> path.files,
                      init_calls |-> 0 ]
               ELSE IF _apps = {}
               THEN LET app == initialize_app(cred.val, _apps)
                    IN [ result |-> IF app.result.ok
                                    THEN Ok(PyBool(app._apps # {}))
                                    ELSE app.result,
                         _apps |-> app._apps, files |-> path.files,
                         init_calls |-> 1 ]
               ELSE [ result |-> Ok(PyBool(_apps # {})), _apps |-> _apps,
                      files |-> path.files, init_calls |-> 0 ]

\* ------------------------------------------------------- client: models

FirebaseConfig_init(api_key, auth_domain, project_id, storage_bucket, messaging_sender_id, app_id, measurement_id) ==
    LET rs == << validate_string(api_key, "api_key", FALSE),
                 validate_string(auth_domain, "auth_domain", FALSE),
                 validate_string(project_id, "project_id", FALSE),
                 validate_string(storage_bucket, "storage_bucket", FALSE),
                 validate_string(messaging_sender_id, "messaging_sender_id", FALSE),
                 validate_string(app_id, "app_id", FALSE),
                 validate_string(measurement_id, "measurement_id", FALSE) >>
    IN IF AllOk(rs)
       THEN Ok([ t |-> "FirebaseConfig", api_key |-> rs[1].val,
                 auth_domain |-> rs[2].val, project_id |-> rs[3].val,
                 storage_bucket |-> rs[4].val, messaging_sender_id |-> rs[5].val,
                 app_id |-> rs[6].val, measurement_id |-> rs[7].val ])
       ELSE FirstRaise(rs)

FirebaseConfig_to_dict(self) ==
    PyDict(<< <<PyStr("apiKey"), self.api_key>>,
              <<PyStr("authDomain"), self.auth_domain>>,
              <<PyStr("projectId"), self.project_id>>,
              <<PyStr("storageBucket"), self.storage_bucket>>,
              <<PyStr("messagingSenderId"), self.messaging_sender_id>>,
              <<PyStr("appId"), self.app_id>>,
              <<PyStr("measurementId"), self.measurement_id>> >>)

\* value or default: Python's `x or default`
OrElse(v, default) == IF Truthy(v) THEN v ELSE default

ActionMap_init(action_name, endpoint, full_url, params, data, auth_key, is_api_endpoint) ==
    IF ~isinstance(endpoint, "str") /\ ~isinstance(full_url, "str")
    THEN Raise(PyException("TypeError", "endpoint or full_url must be strings."))
    ELSE LET rs == << validate_string(action_name, "action_name", FALSE),
                      validate_string(endpoint, "endpoint", TRUE),
                      validate_url(full_url, "full_url", TRUE),
                      validate_dict(params, "params", TRUE, TRUE),
                      validate_dict(data, "data", TRUE, TRUE),
                      validate_string(auth_key, "auth_key", TRUE),
                      validate_bool(is_api_endpoint, "is_api_endpoint", TRUE) >>
         IN IF AllOk(rs)
            THEN Ok([ t |-> "ActionMap", action_name |-> rs[1].val,
                      endpoint |-> rs[2].val, _full_url |-> rs[3].val,
                      params |-> OrElse(rs[4].val, PyDict(<<>>)),
                      data |-> OrElse(rs[5].val, PyDict(<<>>)),
                      auth_key |-> rs[6].val,
                      is_api_endpoint |-> OrElse(rs[7].val, PyBool(FALSE)) ])
            ELSE FirstRaise(rs)

\* the origins anvil.server reports
API_ORIGIN == "https://app.example/_/api"
APP_ORIGIN == "https://debug.example"
PUBLISHED_ORIGIN == "https://app.example"

\* in_debug(): "debug" is among the tags of anvil.app.environment
in_debug(environment) ==
    LET tags == OrElse(environment.tags, PyList(<<>>))
    IN \E i \in 1..Len(tags.l) : tags.l[i] = PyStr("debug")

StartsWith(s, prefix) ==
    Len(s) >= Len(prefix) /\ SubSeq(s, 1, Len(prefix)) = prefix

\* _build_url_from_endpoint that looks at the mode before is_api_endpoint
ActionMap_build_url_from_endpoint_mode_first(self, environment) ==
    IF ~isinstance(self.endpoint, "str")
    THEN Raise(PyException("TypeError", "endpoint must be a string."))
    ELSE IF StartsWith(self.endpoint.s, "http://")
            \/ StartsWith(self.endpoint.s, "https://")
    THEN Ok(self.endpoint)
    ELSE LET endpoint == IF StartsWith(self.endpoint.s, "/")
                         THEN SubSeq(self.endpoint.s, 2, Len(self.endpoint.s))
                         ELSE self.endpoint.s
             base_url == IF in_debug(environment) THEN APP_ORIGIN
                         ELSE IF Truthy(self.is_api_endpoint) THEN API_ORIGIN
                         ELSE PUBLISHED_ORIGIN
         IN Ok(PyStr(base_url \o "/" \o endpoint))

ActionMap_build_url_from_endpoint(self, environment) ==
    IF ~isinstance(self.endpoint, "str")
    THEN Raise(PyException("TypeError", "endpoint must be a string."))
    ELSE IF StartsWith(self.endpoint.s, "http://")
            \/ StartsWith(self.endpoint.s, "https://")
    THEN Ok(self.endpoint)
    ELSE LET endpoint == IF StartsWith(self.endpoint.s, "/")
                         THEN SubSeq(self.endpoint.s, 2, Len(self.endpoint.s))
                         ELSE self.endpoint.s
             base_url == IF Truthy(self.is_api_endpoint) THEN API_ORIGIN
                         ELSE IF in_debug(environment) THEN APP_ORIGIN
                         ELSE PUBLISHED_ORIGIN
         IN Ok(PyStr(base_url \o "/" \o endpoint))

\* the property ActionMap.full_url
ActionMap_full_url(self, environment) ==
    IF Truthy(self._full_url) THEN Ok(self._full_url)
    ELSE ActionMap_build_url_from_endpoint(self, environment)

\* ----------------------------------------------------- client: operations

\* A client call threads st = [self, calls]: self is the FirebaseClient object,
\* calls the calls it made to the browser, the Firebase Web SDK, the handlers
\* of the application and print, in order.
Call(st, fn, args) ==
    [st EXCEPT !.calls = Append(@, [fn |-> fn, args |-> args])]

SetAttr(st, attr, value) == [st EXCEPT !.self[attr] = value]

JsError(msg) == PyException("ExternalError", msg)
AttributeError(msg) == PyException("AttributeError", msg)

FirebaseClient_handle_error(st, action, error) ==
    Call(st, "print", <<PyStr("Error " \o action \o ": " \o str(error))>>)

\* the worker taken in the opposite order: installing, then waiting, then active
ReachableWorker_installing_first(registration) ==
    OrElse(registration.installing, OrElse(registration.waiting,
                                           registration.active))

\* registration.active or registration.waiting or registration.installing
ReachableWorker(registration) ==
    OrElse(registration.active, OrElse(registration.waiting,
                                       registration.installing))

\* subscribe_to_topic that calls the handler a second time when it raised
FirebaseClient_subscribe_to_topic_retry(st, topic, handler_ok) ==
    IF Truthy(st.self.subscribe_handler)
    THEN LET called == Call(st, "subscribe_handler", <<topic, st.self.token>>)
         IN IF handler_ok THEN called
            ELSE FirebaseClient_handle_error(
                     Call(called, "subscribe_handler", <<topic, st.self.token>>),
                     "Subscribing to topic", JsError("subscribe failed"))
    ELSE FirebaseClient_handle_error(st, "Subscribing to topic",
                                     PyStr("No subscribe handler set."))

FirebaseClient_subscribe_to_topic(st, topic, handler_ok) ==
    IF Truthy(st.self.subscribe_handler)
    THEN LET called == Call(st, "subscribe_handler", <<topic, st.self.token>>)
         IN IF handler_ok THEN called
            ELSE FirebaseClient_handle_error(called, "Subscribing to topic",
                                             JsError("subscribe failed"))
    ELSE FirebaseClient_handle_error(st, "Subscribing to topic",
                                     PyStr("No subscribe handler set."))

FirebaseClient_unsubscribe_from_topic(st, topic, handler_ok) ==
    IF Truthy(st.self.unsubscribe_handler)
    THEN LET called == Call(st, "unsubscribe_handler", <<topic, st.self.token>>)
         IN IF handler_ok THEN called
            ELSE FirebaseClient_handle_error(called, "Unsubscribing from topic",
                                             JsError("unsubscribe failed"))
    ELSE FirebaseClient_handle_error(st, "Unsubscribing from topic",
                                     PyStr("No unsubscribe handler set."))

\* add_action_map: [st, ret]; post_ok is whether postMessage returns
FirebaseClient_add_action_map(st, action_map, post_ok, environment) ==
    LET action == "Error adding action map for " \o str(action_map.action_name)
                  \o " to service worker"
        failed(at, e) == [ st |-> FirebaseClient_handle_error(at, action, e),
                           ret |-> PyBool(FALSE) ]
    IN IF st.self.registration = PyNone
       THEN failed(st, AttributeError("'NoneType' object has no attribute 'active'"))
       ELSE LET sw == ReachableWorker(st.self.registration)
                url == ActionMap_full_url(action_map, environment)
            IN IF sw = PyNone
               THEN failed(st, AttributeError(
                               "'NoneType' object has no attribute 'postMessage'"))
               ELSE IF ~url.ok THEN failed(st, url.exc)
               ELSE LET posted == Call(st, "postMessage",
                          << sw,
                             PyDict(<< <<PyStr("type"), PyStr("ADD_ACTION_MAP")>>,
                                       <<PyStr("actionName"), action_map.action_name>>,
                                       <<PyStr("fullUrl"), url.val>>,
                                       <<PyStr("params"), action_map.params>>,
                                       <<PyStr("data"), action_map.data>>,
                                       <<PyStr("authKey"), action_map.auth_key>> >>) >>)
                    IN IF post_ok THEN [st |-> posted, ret |-> PyBool(TRUE)]
                       ELSE failed(posted, JsError("postMessage failed"))

\* the loop of _add_action_maps_to_service_worker, left at the first action map
\* that add_action_map could not post
RECURSIVE AddActionMapsUntilFailure(_, _, _, _)
AddActionMapsUntilFailure(st, i, post_fail, environment) ==
    IF i > Len(st.self.action_maps.l) THEN st
    ELSE LET added == FirebaseClient_add_action_map(
                          st, st.self.action_maps.l[i], i \notin post_fail,
                          environment)
         IN IF added.ret = PyBool(FALSE) THEN added.st
            ELSE AddActionMapsUntilFailure(added.st, i + 1, post_fail, environment)

\* the loop of _add_action_maps_to_service_worker from the i-th action map on;
\* post_fail are the indices of the action maps whose postMessage raises
RECURSIVE AddActionMapsFrom(_, _, _, _)
AddActionMapsFrom(st, i, post_fail, environment) ==
    IF i > Len(st.self.action_maps.l) THEN st
    ELSE AddActionMapsFrom(
             FirebaseClient_add_action_map(st, st.self.action_maps.l[i],
                                           i \notin post_fail, environment).st,
             i + 1, post_fail, environment)

FirebaseClient_add_action_maps_to_service_worker(st, post_fail, environment) ==
    IF ~Truthy(st.self.registration) THEN st
    ELSE AddActionMapsFrom(st, 1, post_fail, environment)

\* _handle_permission that shows the notice for every result but granted
FirebaseClient_handle_permission_notice_unless_granted(st, permission, show_ok, post_fail, environment) ==
    IF permission = PyStr("granted")
    THEN FirebaseClient_add_action_maps_to_service_worker(st, post_fail, environment)
    ELSE LET shown == Call(st, "Notification.show",
                           <<st.self.allow_notification_str, PyInt(0)>>)
         IN IF show_ok THEN shown
            ELSE FirebaseClient_handle_error(shown, "showing notification",
                                             JsError("show failed"))

\* _handle_permission with the defaults notification_str=None, timeout=0
FirebaseClient_handle_permission(st, permission, show_ok, post_fail, environment) ==
    IF permission = PyStr("denied")
    THEN LET shown == Call(st, "Notification.show",
                           <<st.self.allow_notification_str, PyInt(0)>>)
         IN IF show_ok THEN shown
            ELSE FirebaseClient_handle_error(shown, "showing notification",
                                             JsError("show failed"))
    ELSE IF permission = PyStr("granted")
    THEN FirebaseClient_add_action_maps_to_service_worker(st, post_fail, environment)
    ELSE st

\* request_notification_permission: [st, ret]; prompt is the outcome of
\* Notification.requestPermission()
FirebaseClient_request_notification_permission(st, prompt, show_ok, post_fail, environment) ==
    LET asked == Call(st, "Notification.requestPermission", <<>>)
    IN IF ~prompt.ok
       THEN [ st |-> FirebaseClient_handle_error(
                         asked, "requesting notification permission", prompt.exc),
              ret |-> PyBool(FALSE) ]
       ELSE [ st |-> FirebaseClient_handle_permission(asked, prompt.val, show_ok,
                                                      post_fail, environment),
              ret |-> PyBool(prompt.val = PyStr("granted")) ]

\* _retrieve_and_save_device_token that hands the token stored before to the save
\* handler and stores the new one afterwards
FirebaseClient_retrieve_and_save_device_token_stale(st, get_token, save_ok) ==
    LET action == "retrieving device token"
        asked == Call(st, "getToken",
                      <<PyDict(<< <<PyStr("vapidKey"), st.self.public_vapid_key>> >>)>>)
        saved == IF Truthy(st.self.token) /\ Truthy(st.self.save_token_handler)
                 THEN Call(asked, "save_token_handler", <<st.self.token>>)
                 ELSE asked
    IN IF ~get_token.ok
       THEN FirebaseClient_handle_error(asked, action, get_token.exc)
       ELSE SetAttr(saved, "token", OrElse(get_token.val, PyNone))

\* _retrieve_and_save_device_token; get_token is the outcome of
\* messaging.getToken(token_options), save_ok whether the save handler returns
FirebaseClient_retrieve_and_save_device_token(st, get_token, save_ok) ==
    LET token_options ==
            IF Truthy(st.self.public_vapid_key)
            THEN PyDict(<< <<PyStr("vapidKey"), st.self.public_vapid_key>> >>)
            ELSE PyDict(<<>>)
        action == "retrieving device token"
    IN IF st.self._messaging = PyNone
       THEN FirebaseClient_handle_error(st, action,
                AttributeError("'NoneType' object has no attribute 'getToken'"))
       ELSE LET asked == Call(st, "getToken", <<token_options>>)
            IN IF ~get_token.ok
               THEN FirebaseClient_handle_error(asked, action, get_token.exc)
               ELSE LET stored == SetAttr(asked, "token",
                                          OrElse(get_token.val, PyNone))
                    IN IF Truthy(stored.self.token)
                          /\ Truthy(stored.self.save_token_handler)
                       THEN LET saved == Call(stored, "save_token_handler",
                                              <<stored.self.token>>)
                            IN IF save_ok THEN saved
                               ELSE FirebaseClient_handle_error(
                                        saved, action, JsError("save failed"))
                       ELSE stored

\* _set_service_worker: [st, exc]; exc is the exception that escapes, or PyNone
FirebaseClient_set_service_worker(st, use_ok) ==
    IF ~Truthy(st.self.registration) THEN [st |-> st, exc |-> PyNone]
    ELSE [ st |-> Call(st, "useServiceWorker", <<st.self.registration>>),
           exc |-> IF use_ok THEN PyNone ELSE JsError("useServiceWorker failed") ]

FirebaseClient_update_service_worker_firebase_config(st, post_ok) ==
    IF ~Truthy(st.self.registration) THEN st
    ELSE LET sw == ReachableWorker(st.self.registration)
             action == "updating service worker firebase config"
         IN IF sw = PyNone
            THEN FirebaseClient_handle_error(st, action, AttributeError(
                     "'NoneType' object has no attribute 'postMessage'"))
            ELSE LET posted == Call(st, "postMessage",
                       << sw,
                          PyDict(<< <<PyStr("type"), PyStr("SET_FIREBASE_CONFIG")>>,
                                    <<PyStr("firebaseConfig"),
                                      FirebaseConfig_to_dict(st.self.config)>> >>) >>)
                 IN IF post_ok THEN posted
                    ELSE FirebaseClient_handle_error(posted, action,
                                                     JsError("postMessage failed"))

\* the loop of _subscribe_to_topics from the i-th topic on; sub_fail are the
\* indices of the topics for which the subscribe handler raises
RECURSIVE SubscribeFrom(_, _, _)
SubscribeFrom(st, i, sub_fail) ==
    IF i > Len(st.self.topics.l) THEN st
    ELSE SubscribeFrom(
             FirebaseClient_subscribe_to_topic(st, st.self.topics.l[i],
                                               i \notin sub_fail),
             i + 1, sub_fail)

FirebaseClient_subscribe_to_topics(st, sub_fail) ==
    IF ~Truthy(st.self.subscribe_handler) THEN st
    ELSE SubscribeFrom(st, 1, sub_fail)

\* _register_service_worker; env holds the outcomes of the external calls:
\* register (of serviceWorker.register), use_ok, config_post_ok, get_token,
\* save_ok, sub_fail
FirebaseClient_register_service_worker(st, env) ==
    LET action == "registering service worker"
        asked == Call(st, "serviceWorker.register", <<st.self.service_worker_url>>)
    IN IF ~env.register.ok
       THEN FirebaseClient_handle_error(asked, action, env.register.exc)
       ELSE LET registered == SetAttr(asked, "registration", env.register.val)
                bound == FirebaseClient_set_service_worker(registered, env.use_ok)
            IN IF bound.exc # PyNone
               THEN FirebaseClient_handle_error(bound.st, action, bound.exc)
               ELSE FirebaseClient_subscribe_to_topics(
                        FirebaseClient_retrieve_and_save_device_token(
                            FirebaseClient_update_service_worker_firebase_config(
                                bound.st, env.config_post_ok),
                            env.get_token, env.save_ok),
                        env.sub_fail)

\* A value that arrives from JavaScript is a proxy: iter is the outcome of
\* iterating it (Ok of its items, or Raise), items the outcome of
\* dict(proxy).items() (Ok of its key-value pairs, or Raise).
Proxy(iter, items) == [t |-> "proxy", iter |-> iter, items |-> items]

\* "proxy" in str(type(obj)).lower(): true of the proxies, whose type is
\* anvil.js.ProxyType, and of no Python value
is_proxy(obj) == obj.t = "proxy"

RECURSIVE convert_proxy_object_opaque_is_none(_, _)
RECURSIVE convert_proxy_object(_, _)
RECURSIVE ConvertItems(_, _, _)
RECURSIVE ConvertPairs(_, _, _)

\* [convert_proxy_object(item) for item in payload_obj]: [st, val]
ConvertItems(st, items, acc) ==
    IF items = <<>> THEN [st |-> st, val |-> PyList(acc)]
    ELSE LET head == convert_proxy_object(st, items[1])
         IN ConvertItems(head.st, Tail(items), Append(acc, head.val))

\* {key: convert_proxy_object(value) for key, value in ...}: [st, val]
ConvertPairs(st, pairs, acc) ==
    IF pairs = <<>> THEN [st |-> st, val |-> acc]
    ELSE LET head == convert_proxy_object(st, pairs[1][2])
         IN ConvertPairs(head.st, Tail(pairs),
                         dict_set(acc, pairs[1][1], head.val))

\* convert_proxy_object that gives None for a proxy it cannot convert
convert_proxy_object_opaque_is_none(st, payload_obj) ==
    IF ~is_proxy(payload_obj) THEN [st |-> st, val |-> payload_obj]
    ELSE IF payload_obj.iter.ok THEN ConvertItems(st, payload_obj.iter.val, <<>>)
    ELSE IF payload_obj.items.ok
    THEN ConvertPairs(st, payload_obj.items.val, PyDict(<<>>))
    ELSE [ st |-> Call(st, "print",
                       <<PyStr("Error converting payload: "
                               \o str(payload_obj.items.exc))>>),
           val |-> PyNone ]

\* convert_proxy_object of _convert_payload_to_dict: [st, val]
convert_proxy_object(st, payload_obj) ==
    IF ~is_proxy(payload_obj) THEN [st |-> st, val |-> payload_obj]
    ELSE IF payload_obj.iter.ok THEN ConvertItems(st, payload_obj.iter.val, <<>>)
    ELSE IF payload_obj.items.ok
    THEN ConvertPairs(st, payload_obj.items.val, PyDict(<<>>))
    ELSE [ st |-> Call(st, "print",
                       <<PyStr("Error converting payload: "
                               \o str(payload_obj.items.exc))>>),
           val |-> payload_obj ]

FirebaseClient_convert_payload_to_dict(st, payload) ==
    convert_proxy_object(st, payload)

\* _on_message; handler_ok is whether the message handler returns
FirebaseClient_on_message(st, payload, handler_ok) ==
    LET payload_dict == FirebaseClient_convert_payload_to_dict(st, payload)
    IN IF Truthy(st.self.message_handler)
       THEN LET called == Call(payload_dict.st, "message_handler",
                               <<payload_dict.val>>)
            IN IF handler_ok THEN called
               ELSE FirebaseClient_handle_error(called, "handling message",
                                                JsError("handler failed"))
       ELSE payload_dict.st

\* the steps of initialize_app before the service-worker registration
InitSteps == <<"initializeApp", "messaging", "onMessage", "onTokenRefresh">>

\* initialize_app that goes on to register the service worker after a failure
\* of the registration of the token-refresh handler
FirebaseClient_initialize_app_best_effort(st, env) ==
    LET action == "initializing app"
        failed(at, step) ==
            FirebaseClient_handle_error(at, action, JsError(step \o " failed"))
        s1 == Call(st, "initializeApp", <<FirebaseConfig_to_dict(st.self.config)>>)
        s2 == Call(s1, "messaging", <<>>)
        s2set == SetAttr(s2, "_messaging", [t |-> "Messaging"])
        s3 == Call(s2set, "onMessage", <<PyStr("_on_message")>>)
        s4 == Call(s3, "onTokenRefresh",
                   <<PyStr("_retrieve_and_save_device_token")>>)
    IN CASE env.fail_step = "initializeApp" ->
                [st |-> failed(s1, "initializeApp"), ret |-> PyBool(FALSE)]
         [] env.fail_step = "messaging" ->
                [st |-> failed(s2, "messaging"), ret |-> PyBool(FALSE)]
         [] env.fail_step = "onMessage" ->
                [st |-> failed(s3, "onMessage"), ret |-> PyBool(FALSE)]
         [] env.fail_step = "onTokenRefresh" ->
                [ st |-> FirebaseClient_register_service_worker(
                             failed(s4, "onTokenRefresh"), env),
                  ret |-> PyBool(FALSE) ]
         [] OTHER -> [ st |-> FirebaseClient_register_service_worker(s4, env),
                       ret |-> PyNone ]

\* initialize_app: [st, ret]; env.fail_step is the step of InitSteps whose
\* call raises ("none" when all four return)
FirebaseClient_initialize_app(st, env) ==
    LET action == "initializing app"
        failed(at, step) ==
            [ st |-> FirebaseClient_handle_error(at, action,
                                                 JsError(step \o " failed")),
              ret |-> PyBool(FALSE) ]
        s1 == Call(st, "initializeApp", <<FirebaseConfig_to_dict(st.self.config)>>)
        s2 == Call(s1, "messaging", <<>>)
        s2set == SetAttr(s2, "_messaging", [t |-> "Messaging"])
        s3 == Call(s2set, "onMessage", <<PyStr("_on_message")>>)
        s4 == Call(s3, "onTokenRefresh",
                   <<PyStr("_retrieve_and_save_device_token")>>)
    IN CASE env.fail_step = "initializeApp" -> failed(s1, "initializeApp")
         [] env.fail_step = "messaging" -> failed(s2, "messaging")
         [] env.fail_step = "onMessage" -> failed(s3, "onMessage")
         [] env.fail_step = "onTokenRefresh" -> failed(s4, "onTokenRefresh")
         [] OTHER -> [ st |-> FirebaseClient_register_service_worker(s4, env),
                       ret |-> PyNone ]

\* FirebaseClient.__init__; a holds the keyword arguments
FirebaseClient_init(a) ==
    LET rs == << validate_specific_class(a.config, "config", "FirebaseConfig", FALSE),
                 validate_string(a.public_vapid_key, "public_vapid_key", TRUE),
                 validate_string(a.service_worker_url, "service_worker_url", TRUE),
                 validate_callable(a.message_handler, "message_handler", TRUE),
                 validate_callable(a.save_token_handler, "save_token_handler", TRUE),
                 validate_callable(a.subscribe_handler, "subscribe_handler", TRUE),
                 validate_callable(a.unsubscribe_handler, "unsubscribe_handler", TRUE),
                 validate_list_of_strings(a.topics, "topics", TRUE),
                 validate_string(a.allow_notification_str,
                                 "allow_notification_str", TRUE),
                 validate_list_of_specific_class(a.action_maps, "action_maps",
                                                 "ActionMap", TRUE),
                 validate_bool(a.with_logging, "with_logging", TRUE) >>
    IN IF AllOk(rs)
       THEN Ok([ t |-> "FirebaseClient", _messaging |-> PyNone, token |-> PyNone,
                 registration |-> PyNone, config |-> rs[1].val,
                 public_vapid_key |-> rs[2].val, service_worker_url |-> rs[3].val,
                 message_handler |-> rs[4].val, save_token_handler |-> rs[5].val,
                 subscribe_handler |-> rs[6].val,
                 unsubscribe_handler |-> rs[7].val, topics |-> rs[8].val,
                 allow_notification_str |-> rs[9].val, action_maps |-> rs[10].val,
                 with_logging |-> OrElse(rs[11].val, PyBool(FALSE)) ])
       ELSE FirstRaise(rs)

\* ------------------------------------------------------------------ bounds

MaxAdminCalls == 3
MaxBatch == 2
MaxTopics == 2
MaxActionMaps == 3
MaxPairs == 2

\* ------------------------------------------------------------------- state

VARIABLES
    _apps,          \* firebase_admin._apps: the names of the registered apps
    files,          \* the temporary credential files on disk
    init_app_calls, \* invocations of firebase_admin.initialize_app so far
    admin_calls,    \* calls of initialize_firebase_admin so far
    srv,            \* the last call on FirebaseMessaging: input, result, SDK calls
    client,         \* the FirebaseClient object
    environment,    \* anvil.app.environment
    registered,     \* the callbacks of the client the Firebase Web SDK holds
    cli,            \* the last call on FirebaseClient: result, calls, state before
    lib,            \* the last call of a validator, a model or a response type
    proc            \* the concurrent calls of initialize_firebase_admin in progress

vars == <<_apps, files, init_app_calls, admin_calls, srv, client, environment, registered, cli, lib, proc>>
serverVars == <<_apps, files, init_app_calls, admin_calls, srv, proc>>
clientVars == <<client, environment, registered, cli>>

\* ------------------------------------------------------------------ inputs

NoMessageArgs == [data |-> PyNone, headers |-> PyNone, link |-> PyNone]

Messages ==
    { Message_init("Message", data, PyNone, PyNone, token, topic, condition).val :
        data \in {PyNone},
        token \in {PyNone, PyStr(""), PyStr("tok")},
        topic \in {PyNone, PyStr("news")},
        condition \in {PyNone, PyStr("'a' in topics")} }
    \cup { Message_init("Message", PyDict(<< <<PyStr("count"), PyInt(3)>> >>),
                        PyNone, WebpushFCMOptions_init(PyStr("https://l.example/x")).val,
                        PyStr("tok"), PyNone, PyNone).val }

SimpleMessages ==
    { SimpleMessage_init([title |-> PyStr("T"), body |-> PyStr("B"),
                          token |-> token, topic |-> topic, condition |-> PyNone]
                         @@ NoMessageArgs @@ WebpushNotificationDefaults).val :
        token \in {PyNone, PyStr("tok")}, topic \in {PyNone, PyStr("news")} }

MulticastMessages ==
    { MulticastMessage_init(PyNone, PyNone, PyNone, tokens, PyNone).val :
        tokens \in {PyNone, PyList(<<PyStr("tok"), PyStr("tok2")>>)} }

NotMessages == {PyNone, PyStr("text"), PyDict(<<>>)}

SendInputs == Messages \cup SimpleMessages \cup MulticastMessages \cup NotMessages

\* the elements of the lists given to send_all
BatchPool ==
    { Message_init("Message", PyNone, PyNone, PyNone, PyStr("tok"), PyNone, PyNone).val,
      Message_init("Message", PyNone, PyNone, PyNone, PyNone, PyStr("news"), PyNone).val,
      MulticastMessage_init(PyNone, PyNone, PyNone, PyList(<<PyStr("tok")>>),
                            PyNone).val,
      PyStr("text") }

RECURSIVE SeqsUpTo(_, _)
SeqsUpTo(S, n) ==
    IF n = 0 THEN {<<>>}
    ELSE LET shorter == SeqsUpTo(S, n - 1)
         IN shorter \cup {Append(q, x) : q \in {r \in shorter : Len(r) = n - 1}, x \in S}

BatchInputs == SeqsUpTo(BatchPool, MaxBatch)

\* outcomes of firebase_admin.messaging.send: the message name, or an error
SdkSendOutcomes ==
    { Ok(PyStr("projects/p/messages/123")), Ok(PyStr("projects/p/messages/")),
      Ok(PyStr("projects/p")),
      Raise(PyException("UnavailableError", "boom")),
      Raise(PyException("ValueError", "")) }

\* a SendResponse of the SDK
SendResponse(success, message_id, exception) ==
    SdkObject(<< <<PyStr("success"), success>>, <<PyStr("message_id"), message_id>>,
                 <<PyStr("exception"), exception>> >>)

SdkBatchResponse(responses, success_count, failure_count) ==
    SdkObject(<< <<PyStr("responses"), PyList(responses)>>,
                 <<PyStr("success_count"), PyInt(success_count)>>,
                 <<PyStr("failure_count"), PyInt(failure_count)>> >>)

\* outcomes of firebase_admin.messaging.send_all and send_multicast
SdkBatchOutcomes ==
    { Ok(SdkBatchResponse(
            << SendResponse(PyBool(TRUE), PyStr("projects/p/messages/1"), PyNone),
               SendResponse(PyBool(FALSE), PyNone,
                            PyException("UnregisteredError", "bad token")) >>, 1, 1)),
      Ok(SdkBatchResponse(<<>>, 0, 0)),
      Raise(PyException("UnavailableError", "boom")),
      Raise(PyException("ValueError", "")) }

Credentials ==
    { FCMServiceAccountCredentials("service_account"),
      FCMServiceAccountCredentials("authorized_user") }

FileOutcomes == {"ok", "create_fails", "write_fails"}

\* ----------------------------------------------------------- server actions

NoCall == [op |-> "none"]

\* the requests that call initialize_firebase_admin at the same time
Procs == {1, 2}

\* a call that has not started
IdleCall == [pc |-> "idle", cred |-> PyNone, result |-> PyNone]

ServerInit ==
    /\ _apps = {}
    /\ files = <<>>
    /\ init_app_calls = 0
    /\ admin_calls = 0
    /\ srv = NoCall
    /\ proc = [p \in Procs |-> IdleCall]

InitializeFirebaseAdmin ==
    /\ admin_calls < MaxAdminCalls
    /\ \E creds \in Credentials, file_outcome \in FileOutcomes :
         LET r == FirebaseMessaging_initialize_firebase_admin(
                      creds, file_outcome, _apps, files)
         IN /\ _apps' = r._apps
            /\ files' = r.files
            /\ init_app_calls' = init_app_calls + r.init_calls
            /\ admin_calls' = admin_calls + 1
            /\ srv' = [ op |-> "initialize_firebase_admin", arg |-> creds,
                        result |-> r.result, init_calls |-> r.init_calls,
                        apps_before |-> _apps, files_before |-> files ]
    /\ UNCHANGED <<clientVars, lib, proc>>

\* subscribe_to_topic and unsubscribe_from_topic: fn is the SDK function, called
\* with the token first; an exception of the SDK call or of the response
\* reaches the caller
FirebaseMessaging_topic_call(fn, topic, token, sdk_outcome) ==
    LET calls == <<SdkCall(fn, PyList(<<token, topic>>))>>
    IN IF ~sdk_outcome.ok THEN Done(sdk_outcome, calls)
       ELSE Done(TopicManagementResponse_from_fcm_response(sdk_outcome.val), calls)

FirebaseMessaging_subscribe_to_topic(topic, token, sdk_outcome) ==
    FirebaseMessaging_topic_call("subscribe_to_topic", topic, token, sdk_outcome)

FirebaseMessaging_unsubscribe_from_topic(topic, token, sdk_outcome) ==
    FirebaseMessaging_topic_call("unsubscribe_from_topic", topic, token, sdk_outcome)

\* an ErrorInfo of the SDK: the index of the token and the reason
ErrorInfo(index, reason) ==
    SdkObject(<< <<PyStr("index"), PyInt(index)>>, <<PyStr("reason"), PyStr(reason)>> >>)

\* a TopicManagementResponse of the SDK
SdkTopicResponse(success_count, failure_count, errors) ==
    SdkObject(<< <<PyStr("success_count"), PyInt(success_count)>>,
                 <<PyStr("failure_count"), PyInt(failure_count)>>,
                 <<PyStr("errors"), PyList(errors)>> >>)

\* outcomes of messaging.subscribe_to_topic and unsubscribe_from_topic for one
\* token: it is subscribed, or it is reported in errors, or the call raises
SdkTopicOutcomes ==
    { Ok(SdkTopicResponse(1, 0, <<>>)) }
    \cup { Ok(SdkTopicResponse(0, 1, <<ErrorInfo(0, reason)>>)) :
             reason \in {"INVALID_ARGUMENT", "NOT_FOUND", "UNKNOWN"} }
    \cup { Raise(PyException("UnavailableError", "boom")),
           Raise(PyException("ValueError", "Topic must be a non-empty string.")) }

ServerTopics == {PyStr("news"), PyStr("sport"), PyStr("tech"), PyStr("local")}

ServerTokens == {PyStr("tok"), PyStr("tok2"), PyStr("tok3")}

ServerSubscribeToTopic ==
    /\ \E topic \in ServerTopics, token \in ServerTokens, sdk_outcome \in SdkTopicOutcomes :
         LET done == FirebaseMessaging_subscribe_to_topic(topic, token, sdk_outcome)
         IN srv' = [ op |-> "subscribe_to_topic", topic |-> topic, token |-> token,
                     sdk_outcome |-> sdk_outcome,
                     result |-> done.result, calls |-> done.calls ]
    /\ UNCHANGED <<_apps, files, init_app_calls, admin_calls>>
    /\ UNCHANGED <<clientVars, lib, proc>>

ServerUnsubscribeFromTopic ==
    /\ \E topic \in ServerTopics, token \in ServerTokens, sdk_outcome \in SdkTopicOutcomes :
         LET done == FirebaseMessaging_unsubscribe_from_topic(topic, token, sdk_outcome)
         IN srv' = [ op |-> "unsubscribe_from_topic", topic |-> topic, token |-> token,
                     sdk_outcome |-> sdk_outcome,
                     result |-> done.result, calls |-> done.calls ]
    /\ UNCHANGED <<_apps, files, init_app_calls, admin_calls>>
    /\ UNCHANGED <<clientVars, lib, proc>>

\* initialize_firebase_admin step by step, for the calls of concurrent requests.
\* First step: creds_path = get_temp_file_path(); cred = Certificate(creds_path)
CallPrepare(p) ==
    /\ proc[p].pc = "idle"
    /\ \E creds \in Credentials, file_outcome \in FileOutcomes :
         LET path == get_temp_file_path(creds, file_outcome, files)
             cred == IF path.result.ok
                     THEN credentials_Certificate(path.result.val, path.files)
                     ELSE path.result
         IN /\ files' = path.files
            /\ proc' = [proc EXCEPT ![p] =
                            IF cred.ok
                            THEN [pc |-> "prepared", cred |-> cred.val, result |-> PyNone]
                            ELSE [pc |-> "raised", cred |-> PyNone, result |-> cred]]
    /\ UNCHANGED <<_apps, init_app_calls, admin_calls, srv>>
    /\ UNCHANGED <<clientVars, lib>>

\* second step: the test `if not firebase_admin._apps`
CallCheck(p) ==
    /\ proc[p].pc = "prepared"
    /\ proc' = [proc EXCEPT ![p].pc = IF _apps = {} THEN "initializing" ELSE "returning"]
    /\ UNCHANGED <<_apps, files, init_app_calls, admin_calls, srv>>
    /\ UNCHANGED <<clientVars, lib>>

\* third step, when the test found no app: initialize_app(cred)
CallInitialize(p) ==
    /\ proc[p].pc = "initializing"
    /\ LET app == initialize_app(proc[p].cred, _apps)
       IN /\ _apps' = app._apps
          /\ init_app_calls' = init_app_calls + 1
          /\ proc' = [proc EXCEPT ![p] =
                          IF app.result.ok THEN [@ EXCEPT !.pc = "returning"]
                          ELSE [@ EXCEPT !.pc = "raised", !.result = app.result]]
    /\ UNCHANGED <<files, admin_calls, srv>>
    /\ UNCHANGED <<clientVars, lib>>

\* last step: return bool(firebase_admin._apps)
CallReturn(p) ==
    /\ proc[p].pc = "returning"
    /\ proc' = [proc EXCEPT ![p] =
                    [@ EXCEPT !.pc = "returned", !.result = Ok(PyBool(_apps # {}))]]
    /\ UNCHANGED <<_apps, files, init_app_calls, admin_calls, srv>>
    /\ UNCHANGED <<clientVars, lib>>

\* the outcome of an SDK call that is never made is not an input
Rejected(done) == done.calls = <<>>

Send ==
    /\ \E message \in SendInputs, sdk_outcome \in SdkSendOutcomes :
         LET done == FirebaseMessaging_send(message, sdk_outcome)
         IN /\ Rejected(done) => sdk_outcome = Ok(PyStr("projects/p"))
            /\ srv' = [ op |-> "send", arg |-> message, sdk_outcome |-> sdk_outcome,
                        result |-> done.result, calls |-> done.calls ]
    /\ UNCHANGED <<_apps, files, init_app_calls, admin_calls>>
    /\ UNCHANGED <<clientVars, lib, proc>>

SendAll ==
    /\ \E messages \in BatchInputs, sdk_outcome \in SdkBatchOutcomes :
         LET done == FirebaseMessaging_send_all(messages, sdk_outcome)
         IN /\ Rejected(done) => sdk_outcome = Ok(SdkBatchResponse(<<>>, 0, 0))
            /\ srv' = [ op |-> "send_all", arg |-> PyList(messages),
                        sdk_outcome |-> sdk_outcome,
                        result |-> done.result, calls |-> done.calls ]
    /\ UNCHANGED <<_apps, files, init_app_calls, admin_calls>>
    /\ UNCHANGED <<clientVars, lib, proc>>

SendMulticast ==
    /\ \E message \in SendInputs, sdk_outcome \in SdkBatchOutcomes :
         LET done == FirebaseMessaging_send_multicast(message, sdk_outcome)
         IN /\ Rejected(done) => sdk_outcome = Ok(SdkBatchResponse(<<>>, 0, 0))
            /\ srv' = [ op |-> "send_multicast", arg |-> message,
                        sdk_outcome |-> sdk_outcome,
                        result |-> done.result, calls |-> done.calls ]
    /\ UNCHANGED <<_apps, files, init_app_calls, admin_calls>>
    /\ UNCHANGED <<clientVars, lib, proc>>

\* ----------------------------------------------------------- client inputs

Function(name) == [t |-> "function", name |-> name]

TheConfig ==
    FirebaseConfig_init(PyStr("key"), PyStr("p.example"), PyStr("p"),
                        PyStr("p.store"), PyStr("42"), PyStr("app"), PyStr("G-1")).val

TopicPool == <<"news", "sport", "tech", "local">>

\* the i-th action map of the pool: one with a relative endpoint, one whose
\* endpoint is the empty string and that has no full_url, one with a full_url
ActionMapAt(i) ==
    LET name == PyStr("action" \o NatStr(i))
    IN CASE i % 3 = 1 -> ActionMap_init(name, PyStr("/foo"), PyNone, PyNone, PyNone,
                                        PyNone, PyBool(FALSE)).val
         [] i % 3 = 2 -> ActionMap_init(name, PyStr(""), PyNone, PyNone, PyNone,
                                        PyNone, PyBool(FALSE)).val
         [] OTHER -> ActionMap_init(name, PyNone, PyStr("https://u.example/a"),
                                    PyNone, PyNone, PyStr("secret"),
                                    PyBool(TRUE)).val

\* the keyword arguments of a client: the handlers given (a message handler
\* together with the save handler, an unsubscribe handler together with the
\* subscribe handler), and either no topics
\* and action maps or MaxTopics topics and MaxActionMaps action maps
ClientArgsOf(save, sub, full) ==
    [ config |-> TheConfig, public_vapid_key |-> PyStr("vapid"),
      service_worker_url |-> PyStr("https://app.example/_/theme/fb-service-worker.js"),
      message_handler |-> IF save = PyNone THEN PyNone ELSE Function("message"),
      save_token_handler |-> save, subscribe_handler |-> sub,
      unsubscribe_handler |-> IF sub = PyNone THEN PyNone
                              ELSE Function("unsubscribe"),
      topics |-> PyList([i \in 1..(IF full THEN MaxTopics ELSE 0) |->
                           PyStr(TopicPool[i])]),
      allow_notification_str |-> PyStr("Please allow notification!"),
      action_maps |-> PyList([i \in 1..(IF full THEN MaxActionMaps ELSE 0) |->
                                ActionMapAt(i)]),
      with_logging |-> PyBool(FALSE) ]

ClientArgs ==
    { ClientArgsOf(PyNone, PyNone, FALSE) }
    \cup { ClientArgsOf(save, sub, TRUE) :
             save \in {PyNone, Function("save")},
             sub \in {PyNone, Function("subscribe")} }

Published == [tags |-> PyNone]
Environments == {[tags |-> PyList(<<PyStr("debug")>>)], Published}

Worker(state) == [t |-> "ServiceWorker", state |-> state]

Registration(active, waiting, installing) ==
    [ t |-> "ServiceWorkerRegistration", active |-> active, waiting |-> waiting,
      installing |-> installing ]

\* outcomes of navigator.serviceWorker.register
RegisterOutcomes ==
    { Raise(JsError("register failed")),
      Ok(Registration(Worker("active"), Worker("waiting"), PyNone)),
      Ok(Registration(PyNone, PyNone, Worker("installing"))),
      Ok(Registration(PyNone, PyNone, PyNone)) }

\* outcomes of messaging.getToken
GetTokenOutcomes ==
    {Raise(JsError("getToken failed")), Ok(PyNone), Ok(PyStr("tok1"))}

\* outcomes of Notification.requestPermission
PromptOutcomes ==
    { Raise(JsError("requestPermission failed")), Ok(PyStr("granted")),
      Ok(PyStr("denied")), Ok(PyStr("default")) }

\* the subsets of S with at most one element
AtMostOne(S) == {{}} \cup {{x} : x \in S}

\* the outcomes of the external calls of initialize_app: those of a call that
\* stops at one of InitSteps, at the registration or at useServiceWorker, and
\* those of a call that goes on to the token and the topics
InitEnvs(self) ==
    LET unused == [ register |-> Ok(Registration(PyNone, PyNone, PyNone)),
                    use_ok |-> TRUE, config_post_ok |-> TRUE,
                    get_token |-> Ok(PyNone), save_ok |-> TRUE, sub_fail |-> {} ]
        registers == [fail_step |-> "none"] @@ unused
    IN {[fail_step |-> InitSteps[i]] @@ unused : i \in 1..Len(InitSteps)}
       \cup {[registers EXCEPT !.register = r] :
                r \in {o \in RegisterOutcomes : ~o.ok}}
       \cup {[registers EXCEPT !.register = r, !.use_ok = FALSE] :
                r \in {o \in RegisterOutcomes : o.ok}}
       \cup [ fail_step : {"none"},
              register : {o \in RegisterOutcomes : o.ok},
              use_ok : {TRUE},
              config_post_ok : BOOLEAN,
              get_token : GetTokenOutcomes,
              save_ok : BOOLEAN,
              sub_fail : AtMostOne(1..Len(self.topics.l)) ]

\* An outcome of a call that is never made is not an input: it is fixed.
InitEnvUsed(self, env) ==
    LET registers == env.fail_step = "none"
        binds == registers /\ env.register.ok
        posts == binds /\ env.use_ok
        saves == /\ posts /\ env.get_token.ok /\ Truthy(env.get_token.val)
                 /\ Truthy(self.save_token_handler)
        subscribes == posts /\ Truthy(self.subscribe_handler)
    IN /\ registers \/ env.register = Ok(Registration(PyNone, PyNone, PyNone))
       /\ binds \/ env.use_ok
       /\ (posts /\ ReachableWorker(env.register.val) # PyNone) \/ env.config_post_ok
       /\ posts \/ env.get_token = Ok(PyNone)
       /\ saves \/ env.save_ok
       /\ subscribes \/ env.sub_fail = {}

PermissionEnvUsed(self, prompt, show_ok, post_fail) ==
    /\ prompt = Ok(PyStr("denied")) \/ show_ok
    /\ (prompt = Ok(PyStr("granted")) /\ self.registration # PyNone)
       \/ post_fail = {}

\* ----------------------------------------------------------- client actions

ClientInit ==
    /\ client \in {FirebaseClient_init(a).val : a \in ClientArgs}
    /\ environment \in Environments
    \* the environment is read only to resolve the URL of an action map
    /\ client.action_maps.l = <<>> => environment = Published
    /\ registered = {}
    /\ cli = NoCall

\* the callbacks a call of initialize_app handed to the SDK: those whose
\* registration was called and returned
RegisteredBy(calls, env) ==
    { f \in {"onMessage", "onTokenRefresh"} :
        /\ \E i \in 1..Len(calls) : calls[i].fn = f
        /\ env.fail_step # f }

InitializeApp ==
    /\ \E env \in InitEnvs(client) :
         /\ InitEnvUsed(client, env) = TRUE
         /\ LET done == FirebaseClient_initialize_app(
                            [self |-> client, calls |-> <<>>], env)
            IN /\ client' = done.st.self
               /\ cli' = [ op |-> "initialize_app", ret |-> done.ret,
                           calls |-> done.st.calls, before |-> client,
                           env |-> env ]
               /\ registered' = registered \cup RegisteredBy(done.st.calls, env)
    /\ UNCHANGED environment
    /\ UNCHANGED <<serverVars, lib>>

RequestNotificationPermission ==
    /\ \E prompt \in PromptOutcomes, show_ok \in BOOLEAN,
          post_fail \in AtMostOne(1..Len(client.action_maps.l)) :
         /\ PermissionEnvUsed(client, prompt, show_ok, post_fail) = TRUE
         /\ LET done == FirebaseClient_request_notification_permission(
                            [self |-> client, calls |-> <<>>], prompt, show_ok,
                            post_fail, environment)
            IN /\ client' = done.st.self
               /\ cli' = [ op |-> "request_notification_permission",
                           ret |-> done.ret, calls |-> done.st.calls,
                           before |-> client, prompt |-> prompt,
                           show_ok |-> show_ok, post_fail |-> post_fail ]
    /\ UNCHANGED <<environment, registered>>
    /\ UNCHANGED <<serverVars, lib>>

\* the topics of the calls of subscribe_to_topic and unsubscribe_from_topic: one
\* the client is configured with and one it is not
TopicInputs == {PyStr(TopicPool[1]), PyStr(TopicPool[Len(TopicPool)])}

SubscribeToTopic ==
    /\ \E topic \in TopicInputs, handler_ok \in BOOLEAN :
         /\ Truthy(client.subscribe_handler) \/ handler_ok
         /\ LET done == FirebaseClient_subscribe_to_topic(
                            [self |-> client, calls |-> <<>>], topic, handler_ok)
            IN /\ client' = done.self
               /\ cli' = [ op |-> "subscribe_to_topic", topic |-> topic,
                           handler_ok |-> handler_ok, calls |-> done.calls,
                           before |-> client ]
    /\ UNCHANGED <<environment, registered>>
    /\ UNCHANGED <<serverVars, lib>>

UnsubscribeFromTopic ==
    /\ \E topic \in TopicInputs, handler_ok \in BOOLEAN :
         /\ Truthy(client.unsubscribe_handler) \/ handler_ok
         /\ LET done == FirebaseClient_unsubscribe_from_topic(
                            [self |-> client, calls |-> <<>>], topic, handler_ok)
            IN /\ client' = done.self
               /\ cli' = [ op |-> "unsubscribe_from_topic", topic |-> topic,
                           handler_ok |-> handler_ok, calls |-> done.calls,
                           before |-> client ]
    /\ UNCHANGED <<environment, registered>>
    /\ UNCHANGED <<serverVars, lib>>

\* add_action_map with an action map of the pool, configured on the client or not
AddActionMap ==
    /\ \E i \in 1..MaxActionMaps, post_ok \in BOOLEAN :
         LET st == [self |-> client, calls |-> <<>>]
             posts == FirebaseClient_add_action_map(st, ActionMapAt(i), TRUE,
                                                    environment).ret
             done == FirebaseClient_add_action_map(st, ActionMapAt(i), post_ok,
                                                   environment)
         IN /\ posts = PyBool(TRUE) \/ post_ok
            /\ client' = done.st.self
            /\ cli' = [ op |-> "add_action_map", arg |-> ActionMapAt(i),
                        post_ok |-> post_ok, ret |-> done.ret,
                        calls |-> done.st.calls, before |-> client ]
    /\ UNCHANGED <<environment, registered>>
    /\ UNCHANGED <<serverVars, lib>>

\* outcomes of messaging.getToken after a rotation of the token
RefreshTokenOutcomes ==
    {Raise(JsError("getToken failed")), Ok(PyNone), Ok(PyStr("tok2"))}

\* the SDK signals a rotation of the token: it calls the callback given to
\* onTokenRefresh, the method _retrieve_and_save_device_token
TokenRefresh ==
    /\ "onTokenRefresh" \in registered
    /\ \E get_token \in RefreshTokenOutcomes, save_ok \in BOOLEAN :
         /\ \/ save_ok
            \/ /\ get_token.ok
               /\ Truthy(get_token.val)
               /\ Truthy(client.save_token_handler)
         /\ LET done == FirebaseClient_retrieve_and_save_device_token(
                            [self |-> client, calls |-> <<>>], get_token, save_ok)
            IN /\ client' = done.self
               /\ cli' = [ op |-> "token_refresh", get_token |-> get_token,
                           save_ok |-> save_ok, calls |-> done.calls,
                           before |-> client ]
    /\ UNCHANGED <<environment, registered>>
    /\ UNCHANGED <<serverVars, lib>>

\* proxies of a JavaScript array, of a JavaScript object, and of a value that
\* can neither be iterated nor be made a dict
JsArray(items) ==
    Proxy(Ok(items),
          Raise(PyException("TypeError", "cannot convert to dict")))

JsObject(pairs) ==
    Proxy(Raise(PyException("TypeError", "object is not iterable")), Ok(pairs))

JsOpaque ==
    Proxy(Raise(PyException("TypeError", "object is not iterable")),
          Raise(PyException("TypeError", "cannot convert to dict")))

\* the payloads the SDK hands to the message callback
Payloads ==
    { PyStr("hello"),
      JsOpaque,
      JsArray(<<PyStr("a"), JsOpaque>>),
      JsObject(<< <<PyStr("title"), PyStr("T")>> >>),
      JsObject(<< <<PyStr("notification"),
                    JsObject(<< <<PyStr("title"), PyStr("T")>> >>)>>,
                  <<PyStr("data"),
                    JsArray(<<JsOpaque, JsObject(<< <<PyStr("k"), PyInt(1)>> >>)>>)>> >>) }

\* the SDK delivers a foreground message: it calls the callback given to
\* onMessage, the method _on_message
OnMessage ==
    /\ "onMessage" \in registered
    /\ \E payload \in Payloads, handler_ok \in BOOLEAN :
         /\ Truthy(client.message_handler) \/ handler_ok
         /\ LET done == FirebaseClient_on_message(
                            [self |-> client, calls |-> <<>>], payload, handler_ok)
            IN /\ client' = done.self
               /\ cli' = [ op |-> "on_message", payload |-> payload,
                           handler_ok |-> handler_ok, calls |-> done.calls,
                           before |-> client ]
    /\ UNCHANGED <<environment, registered>>
    /\ UNCHANGED <<serverVars, lib>>

\* ------------------------------------------------------ library: actions

ValidatorNames ==
    { "validate_string", "validate_int", "validate_list", "validate_bool",
      "validate_dict", "validate_url", "validate_string_options",
      "validate_callable", "validate_list_of_strings", "validate_specific_class",
      "validate_list_of_specific_class" }

\* the values handed to the validators
ValidatorInputs ==
    { PyNone, PyStr(""), PyStr("ltr"), PyStr("https://u.example/a"),
      PyInt(0), PyInt(7), PyBool(FALSE), PyBool(TRUE),
      PyList(<<>>), PyList(<<PyStr("news")>>), PyList(<<PyInt(200)>>),
      PyList(<<ActionMapAt(1)>>),
      PyDict(<<>>), PyDict(<< <<PyStr("k"), PyStr("v")>> >>),
      PyDict(<< <<PyInt(1), PyStr("v")>> >>),
      Function("handler"), ActionMapAt(1) }

\* a call of a validator with the field name "field" and the defaults of its
\* other parameters; the options are those of the text direction, the class is
\* ActionMap
ApplyValidator(name, value, optional) ==
    CASE name = "validate_string" -> validate_string(value, "field", optional)
      [] name = "validate_int" -> validate_int(value, "field", optional)
      [] name = "validate_list" -> validate_list(value, "field", TRUE, optional)
      [] name = "validate_bool" -> validate_bool(value, "field", optional)
      [] name = "validate_dict" -> validate_dict(value, "field", TRUE, optional)
      [] name = "validate_url" -> validate_url(value, "field", optional)
      [] name = "validate_string_options" ->
             validate_string_options(value, "field", {"auto", "ltr", "rtl"}, optional)
      [] name = "validate_callable" -> validate_callable(value, "field", optional)
      [] name = "validate_list_of_strings" ->
             validate_list_of_strings(value, "field", optional)
      [] name = "validate_specific_class" ->
             validate_specific_class(value, "field", "ActionMap", optional)
      [] name = "validate_list_of_specific_class" ->
             validate_list_of_specific_class(value, "field", "ActionMap", optional)

Validate ==
    /\ \E name \in ValidatorNames, value \in ValidatorInputs, optional \in BOOLEAN :
         lib' = [ op |-> "validate", validator |-> name, value |-> value,
                  optional |-> optional,
                  result |-> ApplyValidator(name, value, optional) ]
    /\ UNCHANGED <<serverVars, clientVars>>

\* the titles given to SimpleMessage
Titles == {PyStr("T"), PyStr("Hello")}

TitledMessages ==
    { SimpleMessage_init([title |-> title, body |-> PyStr("B"),
                          token |-> token, topic |-> PyNone, condition |-> PyNone]
                         @@ NoMessageArgs @@ WebpushNotificationDefaults).val :
        title \in Titles, token \in {PyNone, PyStr("tok")} }

\* message.to_dict() of a Message, a SimpleMessage or a MulticastMessage
ToDict ==
    /\ \E message \in Messages \cup TitledMessages \cup MulticastMessages :
         lib' = [ op |-> "to_dict", arg |-> message,
                  result |-> CASE message.t = "SimpleMessage"
                                      -> SimpleMessage_to_dict(message)
                               [] message.t = "MulticastMessage"
                                      -> MulticastMessage_to_dict(message)
                               [] OTHER -> Message_to_dict(message) ]
    /\ UNCHANGED <<serverVars, clientVars>>

\* the strings the SDK send call can hand to Response.from_fcm_response
FcmStrings ==
    { PyStr("projects/p/messages/123"), PyStr("projects/p/messages/"),
      PyStr("projects/p"), PyStr("a/messages/1/messages/2"), PyStr("/messages/x"),
      PyStr("") }

\* an attribute an SDK object does not have
Missing == [t |-> "missing"]

Attr(name, value) == IF value = Missing THEN <<>> ELSE << <<PyStr(name), value>> >>

\* the values of the success attribute of an SDK response object
SuccessValues ==
    { PyStr("1"), PyStr("true"), PyStr("TRUE"), PyStr("True"), PyStr("tRuE"),
      PyStr("yes"), PyStr("0"), PyStr(""), PyStr("11"),
      PyInt(1), PyInt(0), PyInt(2), PyBool(TRUE), PyBool(FALSE), PyNone, Missing }

\* SDK response objects: each attribute is present or missing
FcmObjects ==
    { SdkObject(Attr("success", success) \o Attr("message_id", message_id)
                \o Attr("exception", exception) \o Attr("error", error)) :
        success \in SuccessValues,
        message_id \in {Missing, PyNone, PyStr("m1")},
        exception \in {Missing, PyNone, PyStr(""),
                       PyException("UnregisteredError", "bad token")},
        error \in {Missing, PyStr("err")} }

FcmExceptions == {PyException("UnavailableError", "boom")}

\* Response.from_fcm_response(response)
FromFcmResponse ==
    /\ \E response \in FcmStrings \cup FcmObjects \cup FcmExceptions :
         lib' = [ op |-> "from_fcm_response", arg |-> response,
                  result |-> Response_from_fcm_response(response) ]
    /\ UNCHANGED <<serverVars, clientVars>>

\* the items of an SDK BatchResponse
FcmItems ==
    { SendResponse(PyBool(TRUE), PyStr("projects/p/messages/1"), PyNone),
      SendResponse(PyBool(FALSE), PyNone,
                   PyException("UnregisteredError", "bad token")),
      PyStr("projects/p/messages/9") }

\* SDK batch responses: each attribute is present or missing, and the counts
\* are the SDK's own
FcmBatchObjects ==
    { SdkObject(Attr("responses", responses) \o Attr("success_count", success_count)
                \o Attr("failure_count", failure_count)) :
        responses \in {Missing} \cup {PyList(q) : q \in SeqsUpTo(FcmItems, MaxBatch)},
        success_count \in {Missing, PyInt(0), PyInt(1), PyInt(5)},
        failure_count \in {Missing, PyInt(0), PyInt(7)} }

\* BatchResponse.from_fcm_response(response)
BatchFromFcmResponse ==
    /\ \E response \in FcmBatchObjects :
         lib' = [ op |-> "batch_from_fcm_response", arg |-> response,
                  result |-> BatchResponse_from_fcm_response(response) ]
    /\ UNCHANGED <<serverVars, clientVars>>

\* the keys and values of a data mapping: primitive ones and others
DataKeys == {PyStr("count"), PyInt(7), PyNone}

DataValues == {PyStr("v"), PyInt(3), PyBool(TRUE), PyNone, PyList(<<PyInt(1)>>)}

\* mappings of at most MaxPairs pairs with distinct keys, and an absent mapping
DataInputs ==
    {PyNone} \cup
    { PyDict(q) : q \in { r \in SeqsUpTo(DataKeys \X DataValues, MaxPairs) :
                            \A i, j \in 1..Len(r) : r[i][1] = r[j][1] => i = j } }

\* FirebaseMessaging._process_data(data)
ProcessData ==
    /\ \E data \in DataInputs :
         lib' = [ op |-> "process_data", arg |-> data, result |-> process_data(data) ]
    /\ UNCHANGED <<serverVars, clientVars>>

\* the arguments of ActionMap(...): params, data and auth_key keep their
\* default None
ActionMapArgs ==
    [ endpoint : { PyNone, PyStr(""), PyStr("foo"), PyStr("/foo"), PyStr("//foo"),
                   PyStr("https://x.example/a"), PyInt(5) },
      full_url : {PyNone, PyStr(""), PyStr("https://u.example/x")},
      is_api_endpoint : {PyNone, PyBool(TRUE), PyBool(FALSE)} ]

\* ActionMap("open", endpoint=..., full_url=..., is_api_endpoint=...) while the
\* app runs in environment env
NewActionMap ==
    /\ \E a \in ActionMapArgs, env \in Environments :
         lib' = [ op |-> "ActionMap", arg |-> a, env |-> env,
                  result |-> ActionMap_init(PyStr("open"), a.endpoint, a.full_url,
                                            PyNone, PyNone, PyNone, a.is_api_endpoint) ]
    /\ UNCHANGED <<serverVars, clientVars>>

\* action_map.full_url read from the ActionMap constructed last, while the app
\* runs in environment env
ReadFullUrl ==
    /\ lib.op \in {"ActionMap", "full_url"}
    /\ lib.result.ok
    /\ \E env \in Environments :
         LET self == IF lib.op = "ActionMap" THEN lib.result.val ELSE lib.self
         IN lib' = [ op |-> "full_url", arg |-> lib.arg, self |-> self,
                     built_in |-> IF lib.op = "ActionMap" THEN lib.env ELSE lib.built_in,
                     env |-> env, result |-> Ok(self), url |-> ActionMap_full_url(self, env) ]
    /\ UNCHANGED <<serverVars, clientVars>>

\* the seven arguments of FirebaseConfig(...), in the order of the signature:
\* strings, of which some are empty, and at most one None or non-string
ConfigArgs ==
    LET strings == [1..7 -> {PyStr("v"), PyStr("")}]
    IN strings \cup { [a EXCEPT ![i] = bad] :
                        a \in strings, i \in 1..7, bad \in {PyNone, PyInt(5)} }

NewFirebaseConfig ==
    /\ \E a \in ConfigArgs :
         lib' = [ op |-> "FirebaseConfig", arg |-> a,
                  result |-> FirebaseConfig_init(a[1], a[2], a[3], a[4], a[5], a[6], a[7]) ]
    /\ UNCHANGED <<serverVars, clientVars>>

\* the keywords given to WebpushNotification(...) or SimpleMessage(...): the
\* others keep their defaults
NotificationArgs ==
    [ title : {PyStr("T"), PyStr("Hello")},
      body : {PyNone, PyStr("B")},
      timestamp_millis : {PyNone, PyInt(5)},
      renotify : {PyBool(FALSE), PyBool(TRUE)},
      vibrate : { PyNone, PyList(<<>>), PyList(<<PyInt(100)>>),
                  PyList(<<PyInt(100), PyInt(200)>>), PyList(<<PyStr("100")>>) } ]

\* WebpushNotification(**a), or SimpleMessage(token="tok", **a) which builds
\* its notification from the same keywords
NewNotification ==
    /\ \E a \in NotificationArgs, cls \in {"WebpushNotification", "SimpleMessage"} :
         LET kw == a @@ WebpushNotificationDefaults
         IN lib' = [ op |-> "notification", cls |-> cls, arg |-> a,
                     result |-> IF cls = "WebpushNotification"
                                THEN WebpushNotification_init(kw)
                                ELSE SimpleMessage_init(
                                         kw @@ [token |-> PyStr("tok"), topic |-> PyNone,
                                                condition |-> PyNone] @@ NoMessageArgs) ]
    /\ UNCHANGED <<serverVars, clientVars>>

\* the values a field of the credentials can hold
FieldValues == {"v", "a,}", "x, ]", "q\"z", "a}b", ",", "b\\c"}

\* credentials with one field replaced by one of the values
CredentialInputs ==
    { [FCMServiceAccountCredentials("service_account")
          EXCEPT ![CredentialAttrs[i]] = PyStr(v)] :
        i \in 1..Len(CredentialAttrs), v \in FieldValues }

\* FCMServiceAccountCredentials(...)
NewCredentials ==
    /\ \E creds \in CredentialInputs : lib' = [op |-> "credentials", arg |-> creds]
    /\ UNCHANGED <<serverVars, clientVars>>

\* from_json_string(json.dumps(creds.to_dict())) for the credentials constructed
\* last; with comma, a comma is put before the closing brace of the text
FromJsonString ==
    /\ lib.op = "credentials"
    /\ \E comma \in {"", ",", ", "} :
         LET dumped == json_dumps(FCMServiceAccountCredentials_to_dict(lib.arg))
             text == SubSeq(dumped, 1, Len(dumped) - 1) \o comma \o "}"
         IN lib' = [ op |-> "from_json_string", arg |-> lib.arg, comma |-> comma,
                     text |-> text,
                     result |-> FCMServiceAccountCredentials_from_json_string(text) ]
    /\ UNCHANGED <<serverVars, clientVars>>

\* ---------------------------------------------------------- specifications

IdleClient ==
    client = PyNone /\ environment = PyNone /\ registered = {} /\ cli = NoCall

IdleLib == lib = NoCall

\* the server gateway alone, before its first call
InitServer == ServerInit /\ IdleClient /\ IdleLib

\* the client gateway alone, after FirebaseClient.__init__
InitClient == ClientInit /\ ServerInit /\ IdleLib

SendNext == Send \/ SendAll \/ SendMulticast

ConcurrentNext ==
    \E p \in Procs : CallPrepare(p) \/ CallCheck(p) \/ CallInitialize(p) \/ CallReturn(p)

TopicNext == ServerSubscribeToTopic \/ ServerUnsubscribeFromTopic

ClientNext ==
    \/ InitializeApp
    \/ RequestNotificationPermission
    \/ SubscribeToTopic
    \/ UnsubscribeFromTopic
    \/ AddActionMap
    \/ TokenRefresh
    \/ OnMessage

\* the validators, the models and the response types alone
InitLib == IdleLib /\ ServerInit /\ IdleClient

LibNext ==
    \/ Validate
    \/ ToDict
    \/ FromFcmResponse
    \/ BatchFromFcmResponse

\* the admin SDK initialisation of the server gateway
SpecAdmin == InitServer /\ [][InitializeFirebaseAdmin]_vars

\* the send operations of the server gateway
SpecSend == InitServer /\ [][SendNext]_vars

DataNext == ProcessData

ActionMapNext == NewActionMap \/ ReadFullUrl

\* the compilation of the data of a message
SpecData == InitLib /\ [][DataNext]_vars

\* the construction of an ActionMap and the reading of its full_url
SpecActionMap == InitLib /\ [][ActionMapNext]_vars

\* the construction of a FirebaseConfig
SpecConfig == InitLib /\ [][NewFirebaseConfig]_vars

\* the construction of a notification
SpecNotification == InitLib /\ [][NewNotification]_vars

\* concurrent calls of initialize_firebase_admin, interleaved step by step
SpecConcurrent == InitServer /\ [][ConcurrentNext]_vars

CredentialsNext == NewCredentials \/ FromJsonString

\* the credentials and their JSON text
SpecCredentials == InitLib /\ [][CredentialsNext]_vars

\* the topic management of the server gateway
SpecTopics == InitServer /\ [][TopicNext]_vars

\* the validators, the models and the response types
SpecLib == InitLib /\ [][LibNext]_vars

\* the client gateway
SpecClient == InitClient /\ [][ClientNext]_vars

\* ------------------------------------------------- claims: send operations

IsMessageFamily(v) == v.t \in {"Message", "SimpleMessage"}

\* the last server call passed its type check and reached the SDK
Accepted(op) == srv.op = op /\ Len(srv.calls) = 1

C2_RejectsOtherTypes ==
    LET rejected == /\ ~srv.result.ok
                    /\ srv.result.exc.cls = "TypeError"
                    /\ srv.calls = <<>>
    IN /\ (srv.op = "send" /\ ~IsMessageFamily(srv.arg)) => rejected
       /\ (srv.op = "send_all"
           /\ \E i \in 1..Len(srv.arg.l) : ~IsMessageFamily(srv.arg.l[i]))
          => rejected
       /\ (srv.op = "send_multicast" /\ srv.arg.t # "MulticastMessage") => rejected

C2_Witness ==
    /\ srv.op = "send_all"
    /\ Len(srv.arg.l) = 2
    /\ IsMessageFamily(srv.arg.l[1])
    /\ srv.arg.l[2].t = "MulticastMessage"
    /\ ~srv.result.ok
    /\ srv.calls = <<>>

\* the messages given to the last accepted send or send_all, and the SDK
\* messages compiled from them that reached the SDK
SentMessages ==
    IF Accepted("send") THEN <<srv.arg>>
    ELSE IF Accepted("send_all") THEN srv.arg.l
    ELSE <<>>

CompiledMessages ==
    IF Accepted("send") THEN <<srv.calls[1].arg>>
    ELSE IF Accepted("send_all") THEN srv.calls[1].arg.l
    ELSE <<>>

\* C3: the compiled SDK message has the token of the message, has the topic of
\* the message exactly when the token is absent (and no topic otherwise), and
\* never carries both a token and a topic.
C3_TokenWinsOverTopic ==
    /\ Len(CompiledMessages) = Len(SentMessages)
    /\ \A i \in 1..Len(SentMessages) :
         LET m == SentMessages[i]
             c == CompiledMessages[i]
         IN /\ c.token = m.token
            /\ c.topic = (IF m.token = PyNone THEN m.topic ELSE PyNone)
            /\ ~(c.token # PyNone /\ c.topic # PyNone)

C3_Witness ==
    /\ Accepted("send")
    /\ srv.arg.token = PyStr("tok")
    /\ srv.arg.topic = PyStr("news")
    /\ srv.calls[1].arg.token = PyStr("tok")
    /\ srv.calls[1].arg.topic = PyNone

\* the targets a compiled SDK message carries
Targets(c) == {k \in {"token", "topic", "condition"} : c[k] # PyNone}

\* C4: a message without token and topic whose condition is set is sent with
\* that condition as the target of the SDK message: exactly one of token, topic,
\* condition reaches the SDK.
C4_ConditionReachesSdk ==
    \A i \in 1..Len(SentMessages) :
        LET m == SentMessages[i]
            c == CompiledMessages[i]
        IN (m.token = PyNone /\ m.topic = PyNone /\ m.condition # PyNone)
           => /\ c.condition = m.condition
              /\ Targets(c) = {"condition"}

\* C5: send_all and send_multicast do not catch: when their SDK call raises, the
\* exception reaches the caller and no BatchResponse is returned, while send
\* returns a failed Response when its SDK call raises.
C5_BatchErrorsPropagate ==
    /\ ((Accepted("send_all") \/ Accepted("send_multicast")) /\ ~srv.sdk_outcome.ok)
       => srv.result = Raise(srv.sdk_outcome.exc)
    /\ (Accepted("send") /\ ~srv.sdk_outcome.ok)
       => srv.result.ok /\ srv.result.val.success = PyBool(FALSE)

C5_Witness ==
    /\ Accepted("send_multicast")
    /\ ~srv.sdk_outcome.ok
    /\ ~srv.result.ok
    /\ srv.result.exc.msg = "boom"

\* ----------------------------------------------- claims: admin initialization

CallsAmong(fns) ==
    LET made == SelectSeq(cli.calls, LAMBDA c : c.fn \in fns)
    IN [i \in 1..Len(made) |-> made[i].fn]

InitOrder == InitSteps \o <<"serviceWorker.register">>

\* the position in InitOrder of the step of the last initialize_app that raised,
\* 0 when none did
RaisedAt ==
    IF cli.env.fail_step # "none"
    THEN CHOOSE k \in 1..Len(InitSteps) : InitSteps[k] = cli.env.fail_step
    ELSE IF ~cli.env.register.ok THEN Len(InitOrder)
    ELSE 0

\* C7: initialize_app makes its steps in the order initializeApp, messaging(),
\* onMessage, onTokenRefresh, service-worker registration, each at most once.
\* When a step raises, the call makes no later step and nothing else but the
\* print of the error, keeps what the earlier steps stored (the messaging
\* reference once messaging() has returned), changes nothing else of the client,
\* and returns (False, or None when the registration raised) instead of raising.
C7_StepsInOrderAbortOnError ==
    cli.op = "initialize_app" =>
        LET steps == CallsAmong({InitOrder[k] : k \in 1..Len(InitOrder)})
            n == RaisedAt
        IN /\ cli.ret \in {PyNone, PyBool(FALSE)}
           /\ steps = SubSeq(InitOrder, 1, IF n = 0 THEN Len(InitOrder) ELSE n)
           /\ n # 0 =>
                /\ Len(cli.calls) = n + 1
                /\ cli.calls[n].fn = InitOrder[n]
                /\ cli.calls[n + 1].fn = "print"
                /\ cli.ret = (IF n = Len(InitOrder) THEN PyNone ELSE PyBool(FALSE))
                /\ client._messaging = (IF n > 2 THEN [t |-> "Messaging"]
                                        ELSE cli.before._messaging)
                /\ client = [cli.before EXCEPT !._messaging = client._messaging]
           /\ n = 0 => cli.ret = PyNone /\ client._messaging = [t |-> "Messaging"]

C7_Witness ==
    /\ cli.op = "initialize_app"
    /\ cli.env.fail_step = "onTokenRefresh"
    /\ cli.before._messaging = PyNone
    /\ client._messaging = [t |-> "Messaging"]
    /\ cli.ret = PyBool(FALSE)
    /\ CallsAmong({"serviceWorker.register"}) = <<>>

\* C8: every call of the subscribe handler made during initialize_app comes
\* after getToken has returned a non-empty token in that call and passes that
\* token; when getToken raises or returns nothing the handler is not called.
C8_SubscribeOnlyWithToken ==
    cli.op = "initialize_app" =>
        \A i \in 1..Len(cli.calls) :
            cli.calls[i].fn = "subscribe_handler" =>
                /\ cli.env.get_token.ok
                /\ Truthy(cli.env.get_token.val)
                /\ cli.calls[i].args[2] = cli.env.get_token.val
                /\ \E j \in 1..(i - 1) : cli.calls[j].fn = "getToken"

\* the action names of the ADD_ACTION_MAP messages the last client call passed
\* to postMessage, in order
PostedActionMaps ==
    LET posts == SelectSeq(cli.calls,
                     LAMBDA c : /\ c.fn = "postMessage"
                                /\ dict_get(c.args[2], PyStr("type"))
                                   = PyStr("ADD_ACTION_MAP"))
    IN [i \in 1..Len(posts) |-> dict_get(posts[i].args[2], PyStr("actionName"))]

Granted ==
    /\ cli.op = "request_notification_permission"
    /\ cli.prompt = Ok(PyStr("granted"))

\* C9 (as stated): when the prompt result is granted, every ActionMap of the
\* client is posted as an ADD_ACTION_MAP message exactly once, in list order,
\* and the call returns True.
C9_AllActionMapsPosted ==
    Granted =>
        /\ cli.ret = PyBool(TRUE)
        /\ PostedActionMaps = [i \in 1..Len(cli.before.action_maps.l) |->
                                 cli.before.action_maps.l[i].action_name]

\* an ActionMap has a URL when it was given a full_url or an endpoint that is
\* not empty
HasUrl(action_map) ==
    action_map._full_url # PyNone \/ action_map.endpoint # PyNone

\* C9 (amended): when the prompt result is granted the call returns True. With
\* a registration that has an active, waiting or installing worker, the
\* ActionMaps of the client that have a URL are passed to postMessage as
\* ADD_ACTION_MAP messages, each exactly once and in list order, a postMessage
\* that raises not stopping the later ones; without a registration, or with one
\* that has no worker, nothing is posted.
C9_ActionMapsPostedAmended ==
    Granted =>
        LET registration == cli.before.registration
            reachable == /\ registration # PyNone
                         /\ \E w \in {"active", "waiting", "installing"} :
                                registration[w] # PyNone
            maps == IF reachable
                    THEN SelectSeq(cli.before.action_maps.l, HasUrl)
                    ELSE <<>>
        IN /\ cli.ret = PyBool(TRUE)
           /\ PostedActionMaps = [i \in 1..Len(maps) |-> maps[i].action_name]

C9_Witness ==
    /\ Granted
    /\ cli.ret = PyBool(TRUE)
    /\ cli.before.registration # PyNone
    /\ cli.post_fail = {1}
    /\ Len(cli.before.action_maps.l) = MaxActionMaps
    /\ Len(PostedActionMaps) >= 2
    /\ PostedActionMaps[1] = cli.before.action_maps.l[1].action_name

\* C10: request_notification_permission returns True exactly when the prompt
\* result is granted, and False for denied, for default and when the prompt
\* raises; the notice is shown once when the result is denied and never
\* otherwise; for default the call shows no notice and posts nothing.
C10_TrueIffGranted ==
    cli.op = "request_notification_permission" =>
        /\ cli.ret = PyBool(cli.prompt = Ok(PyStr("granted")))
        /\ CallsAmong({"Notification.show"})
              = (IF cli.prompt = Ok(PyStr("denied"))
                 THEN <<"Notification.show">> ELSE <<>>)
        /\ cli.prompt = Ok(PyStr("default")) =>
              CallsAmong({"Notification.show", "postMessage"}) = <<>>

C10_Witness ==
    /\ cli.op = "request_notification_permission"
    /\ cli.prompt = Ok(PyStr("denied"))
    /\ ~cli.show_ok
    /\ cli.ret = PyBool(FALSE)
    /\ CallsAmong({"Notification.show"}) = <<"Notification.show">>

\* the last client call was subscribe_to_topic or unsubscribe_from_topic
TopicCall == cli.op \in {"subscribe_to_topic", "unsubscribe_from_topic"}

\* the handler that call delegates to
TopicHandler ==
    IF cli.op = "subscribe_to_topic" THEN "subscribe_handler"
    ELSE "unsubscribe_handler"

\* C11: subscribe_to_topic(topic) calls the subscribe handler exactly once with
\* (topic, current token) and unsubscribe_from_topic(topic) the unsubscribe
\* handler; when the handler is absent no handler is called and the error is
\* printed, when it raises the error is printed after the one call; the call
\* returns and leaves the token, the topics and the registration of the client
\* as they were.
C11_TopicCallsDelegate ==
    TopicCall =>
        LET present == cli.before[TopicHandler] # PyNone
            handlers == {"subscribe_handler", "unsubscribe_handler"}
        IN /\ client.token = cli.before.token
           /\ client.topics = cli.before.topics
           /\ client.registration = cli.before.registration
           /\ present =>
                /\ CallsAmong(handlers) = <<TopicHandler>>
                /\ cli.calls[1] = [ fn |-> TopicHandler,
                                    args |-> <<cli.topic, cli.before.token>> ]
                /\ CallsAmong({"print"})
                      = (IF cli.handler_ok THEN <<>> ELSE <<"print">>)
                /\ Len(cli.calls) = (IF cli.handler_ok THEN 1 ELSE 2)
           /\ ~present =>
                /\ CallsAmong(handlers) = <<>>
                /\ CallsAmong({"print"}) = <<"print">>
                /\ Len(cli.calls) = 1

C11_Witness ==
    /\ cli.op = "unsubscribe_from_topic"
    /\ cli.before.unsubscribe_handler # PyNone
    /\ ~cli.handler_ok
    /\ cli.before.token = PyStr("tok1")
    /\ cli.calls[1].args = <<PyStr("news"), PyStr("tok1")>>
    /\ cli.calls[2].fn = "print"
    /\ client.token = PyStr("tok1")

\* the first of active, waiting, installing of a registration that is not None
FirstWorker(registration) ==
    IF registration = PyNone THEN PyNone
    ELSE IF registration.active # PyNone THEN registration.active
    ELSE IF registration.waiting # PyNone THEN registration.waiting
    ELSE registration.installing

\* the message add_action_map is to post for an action map with the URL url
AddActionMapMessage(action_map, url) ==
    PyDict(<< <<PyStr("type"), PyStr("ADD_ACTION_MAP")>>,
              <<PyStr("actionName"), action_map.action_name>>,
              <<PyStr("fullUrl"), url>>,
              <<PyStr("params"), action_map.params>>,
              <<PyStr("data"), action_map.data>>,
              <<PyStr("authKey"), action_map.auth_key>> >>)

\* C12: add_action_map returns True exactly when the client has a registration
\* with a worker, the URL of the action map resolves and postMessage returns;
\* it has then made one postMessage call, to the first of active, waiting,
\* installing that is not None, with the ADD_ACTION_MAP message of the action
\* map. Otherwise it returns False, has posted nothing (no postMessage call, or
\* the one that raised), has printed the error, and does not raise.
C12_AddActionMapPostsOnce ==
    cli.op = "add_action_map" =>
        LET sw == FirstWorker(cli.before.registration)
            url == ActionMap_full_url(cli.arg, environment)
            posts == SelectSeq(cli.calls, LAMBDA c : c.fn = "postMessage")
        IN /\ cli.ret = PyBool(sw # PyNone /\ HasUrl(cli.arg) /\ cli.post_ok)
           /\ cli.ret = PyBool(TRUE) =>
                cli.calls = << [ fn |-> "postMessage",
                                 args |-> <<sw, AddActionMapMessage(cli.arg, url.val)>> ] >>
           /\ cli.ret = PyBool(FALSE) =>
                /\ Len(posts) = (IF cli.post_ok THEN 0 ELSE 1)
                /\ CallsAmong({"print"}) = <<"print">>
           /\ client = cli.before

C12_Witness ==
    /\ cli.op = "add_action_map"
    /\ cli.before.registration # PyNone
    /\ cli.before.registration.active = PyNone
    /\ cli.before.registration.installing # PyNone
    /\ cli.ret = PyBool(TRUE)
    /\ cli.calls[1].args[1] = cli.before.registration.installing
    /\ dict_get(cli.calls[1].args[2], PyStr("fullUrl")) = PyStr("https://u.example/a")

\* C13: when the SDK signals a rotation of the token the client retrieves the
\* token again. When getToken returns, the stored token is the token it returned
\* and, when a save handler is configured and that token is not empty, the save
\* handler has been called exactly once, with that token; otherwise the save
\* handler is not called. When getToken raises, the stored token stays and the
\* error is printed; an exception of the save handler is printed. The callback
\* returns in every case and changes nothing but the token.
C13_TokenRefreshReacquires ==
    cli.op = "token_refresh" =>
        LET saves == SelectSeq(cli.calls, LAMBDA c : c.fn = "save_token_handler")
            fresh == cli.get_token.ok /\ cli.get_token.val # PyNone
        IN /\ CallsAmong({"getToken"}) = <<"getToken">>
           /\ cli.get_token.ok => client.token = cli.get_token.val
           /\ ~cli.get_token.ok => client.token = cli.before.token
           /\ client = [cli.before EXCEPT !.token = client.token]
           /\ saves = IF fresh /\ cli.before.save_token_handler # PyNone
                      THEN << [ fn |-> "save_token_handler",
                                args |-> <<cli.get_token.val>> ] >>
                      ELSE <<>>
           /\ CallsAmong({"print"})
                 = (IF cli.get_token.ok /\ cli.save_ok THEN <<>> ELSE <<"print">>)

C13_Witness ==
    /\ cli.op = "token_refresh"
    /\ cli.before.token = PyStr("tok1")
    /\ cli.get_token = Ok(PyStr("tok2"))
    /\ client.token = PyStr("tok2")
    /\ cli.before.save_token_handler # PyNone
    /\ Len(cli.calls) = 2
    /\ cli.calls[2] = [fn |-> "save_token_handler", args |-> <<PyStr("tok2")>>]

\* what the conversion of a payload is to give: a value that is no proxy as it
\* is, a proxy that can be iterated as the list of its converted items, one that
\* can be made a dict as the dict of its converted values, any other proxy as
\* it is
RECURSIVE Converted(_)
Converted(payload) ==
    IF payload.t # "proxy" THEN payload
    ELSE IF payload.iter.ok
    THEN PyList([i \in 1..Len(payload.iter.val) |-> Converted(payload.iter.val[i])])
    ELSE IF payload.items.ok
    THEN PyDict([i \in 1..Len(payload.items.val) |->
                   <<payload.items.val[i][1], Converted(payload.items.val[i][2])>>])
    ELSE payload

\* the number of subtrees of a payload the conversion cannot convert
RECURSIVE Unconverted(_)
Unconverted(payload) ==
    LET Sum(f, n) == LET sum[i \in 0..n] == IF i = 0 THEN 0 ELSE sum[i - 1] + f[i]
                     IN sum[n]
    IN IF payload.t # "proxy" THEN 0
       ELSE IF payload.iter.ok
       THEN Sum([i \in 1..Len(payload.iter.val) |-> Unconverted(payload.iter.val[i])],
                Len(payload.iter.val))
       ELSE IF payload.items.ok
       THEN Sum([i \in 1..Len(payload.items.val) |->
                   Unconverted(payload.items.val[i][2])],
                Len(payload.items.val))
       ELSE 1

\* C14: the message callback returns for every payload: the conversion leaves
\* every subtree it cannot convert as the value it was and prints one error for
\* it; the message handler, when set, is called exactly once, with the converted
\* payload; an exception of the handler is printed after that call; the
\* callback makes no other call and nothing of the client changes.
C14_OnMessageNeverRaises ==
    cli.op = "on_message" =>
        LET handled == SelectSeq(cli.calls, LAMBDA c : c.fn = "message_handler")
        IN /\ handled = IF cli.before.message_handler # PyNone
                        THEN << [ fn |-> "message_handler",
                                  args |-> <<Converted(cli.payload)>> ] >>
                        ELSE <<>>
           /\ ~cli.handler_ok =>
                /\ cli.calls[Len(cli.calls)].fn = "print"
                /\ cli.calls[Len(cli.calls) - 1].fn = "message_handler"
           /\ Len(CallsAmong({"print"}))
                 = Unconverted(cli.payload) + (IF cli.handler_ok THEN 0 ELSE 1)
           /\ Len(cli.calls) = Len(handled) + Len(CallsAmong({"print"}))
           /\ client = cli.before

C14_Witness ==
    /\ cli.op = "on_message"
    /\ cli.before.message_handler # PyNone
    /\ ~cli.handler_ok
    /\ cli.payload = JsArray(<<PyStr("a"), JsOpaque>>)
    /\ Len(cli.calls) = 3
    /\ cli.calls[2] = [ fn |-> "message_handler",
                        args |-> <<PyList(<<PyStr("a"), JsOpaque>>)>> ]
    /\ cli.calls[3].fn = "print"

\* ----------------------------------------------------- claims: the library

\* the empty value a validator returns for an optional field
Sentinel(validator) ==
    IF validator \in {"validate_list_of_strings", "validate_list_of_specific_class"}
    THEN PyList(<<>>)
    ELSE PyNone

\* C15: every validator called with the value None returns its empty value when
\* the field is optional (None, and [] for validate_list_of_strings and
\* validate_list_of_specific_class), and raises the ValueError "<field> is
\* required." when it is not.
C15_NoneIsEmptyOrMissing ==
    (lib.op = "validate" /\ lib.value = PyNone) =>
        lib.result = IF lib.optional THEN Ok(Sentinel(lib.validator))
                     ELSE Raise(PyException("ValueError", "field is required."))

C15_Witness ==
    /\ lib.op = "validate"
    /\ lib.validator = "validate_list_of_strings"
    /\ lib.value = PyNone
    /\ lib.optional
    /\ lib.result = Ok(PyList(<<>>))

\* the empty values of the type a validator accepts
EmptyOf(validator) ==
    CASE validator \in {"validate_string", "validate_url", "validate_string_options"}
             -> {PyStr("")}
      [] validator = "validate_int" -> {PyInt(0)}
      [] validator = "validate_bool" -> {PyBool(FALSE)}
      [] validator = "validate_dict" -> {PyDict(<<>>)}
      [] validator \in {"validate_list", "validate_list_of_strings",
                        "validate_list_of_specific_class"} -> {PyList(<<>>)}
      [] OTHER -> {}

\* C16: every validator called for an optional field with the empty value of
\* its type ("", 0, False, {}, []) returns its empty value (None, or [] for the
\* two list-of validators): it neither raises nor returns the value given.
C16_EmptyIsAbsent ==
    (lib.op = "validate" /\ lib.optional /\ lib.value \in EmptyOf(lib.validator))
        => lib.result = Ok(Sentinel(lib.validator))

\* the classes of the message model
ModelClasses ==
    { "FCMOptions", "WebpushNotificationAction", "WebpushNotification",
      "WebpushFCMOptions", "WebpushConfig", "Message", "MulticastMessage",
      "SimpleMessage" }

\* no object of the message model is a value of v, at any depth
RECURSIVE NoModelObject(_)
NoModelObject(v) ==
    CASE v.t \in ModelClasses -> FALSE
      [] v.t = "dict" -> \A i \in 1..Len(v.items) : NoModelObject(v.items[i][2])
      [] v.t = "list" -> \A i \in 1..Len(v.l) : NoModelObject(v.l[i])
      [] OTHER -> TRUE

\* C17: to_dict recurses into the nested model fields: for a SimpleMessage
\* built with title T, to_dict() is a nested mapping whose
\* ["webpush"]["notification"]["title"] is T, and no model object is left as a
\* value anywhere in the result.
C17_ToDictRecurses ==
    (lib.op = "to_dict" /\ lib.arg.t = "SimpleMessage")
        => LET webpush == dict_get(lib.result, PyStr("webpush"))
           IN /\ webpush.t = "dict"
              /\ dict_get(webpush, PyStr("notification")).t = "dict"
              /\ dict_get(dict_get(webpush, PyStr("notification")), PyStr("title"))
                     = lib.arg.webpush.notification.title
              /\ NoModelObject(lib.result)

\* the places where sep occurs in s
Occurrences(s, sep) ==
    {i \in 1..(Len(s) - Len(sep) + 1) : SubSeq(s, i, i + Len(sep) - 1) = sep}

\* the text of s after the last occurrence of sep
AfterLast(s, sep) ==
    LET last == CHOOSE i \in Occurrences(s, sep) : \A j \in Occurrences(s, sep) : j <= i
    IN SubSeq(s, last + Len(sep), Len(s))

\* C18: for a string s that contains "/messages/", Response.from_fcm_response(s)
\* returns success=True with message_id the text after the last "/messages/"
\* of s; for a string without it, it returns success=False.
C18_MessageIdAfterLastSegment ==
    (lib.op = "from_fcm_response" /\ lib.arg.t = "str")
        => /\ lib.result.ok
           /\ IF Occurrences(lib.arg.s, "/messages/") # {}
              THEN /\ lib.result.val.success = PyBool(TRUE)
                   /\ lib.result.val.message_id
                          = PyStr(AfterLast(lib.arg.s, "/messages/"))
              ELSE lib.result.val.success = PyBool(FALSE)

\* "1" and the spellings of "true" in either case
TrueStrings ==
    {"1"} \cup { a \o b \o c \o d : a \in {"t", "T"}, b \in {"r", "R"},
                                    c \in {"u", "U"}, d \in {"e", "E"} }

\* the success attribute is "1" or "true" in either case, or the integer 1
\* (True is the integer 1 in Python: bool is a subclass of int and True == 1)
SuccessIsTrue(obj) ==
    /\ hasattr(obj, "success")
    /\ LET v == dict_get(obj.attrs, PyStr("success"))
       IN \/ v.t = "str" /\ v.s \in TrueStrings
          \/ v.t = "int" /\ v.i = 1
          \/ v = PyBool(TRUE)

\* obj with None for each of the names it does not have
WithNoneFor(obj, names) ==
    LET missing == SelectSeq(names, LAMBDA n : ~hasattr(obj, n))
    IN SdkObject(obj.attrs.items
                 \o [i \in 1..Len(missing) |-> <<PyStr(missing[i]), PyNone>>])

\* C19: for an SDK response object, Response.from_fcm_response returns (it
\* does not raise) a Response whose success is True exactly when the success
\* attribute is the string "1" or "true" in either case or the integer 1, and
\* False for every other value and when the attribute is missing; a missing
\* message_id, exception or error attribute is read as None.
C19_SuccessCoercedMissingTolerated ==
    (lib.op = "from_fcm_response" /\ lib.arg.t = "object")
        => /\ lib.result.ok
           /\ lib.result.val.t = "Response"
           /\ lib.result.val.success = PyBool(SuccessIsTrue(lib.arg))
           /\ lib.result = Response_from_fcm_response(
                   WithNoneFor(lib.arg, <<"message_id", "exception", "error">>))
           /\ ~hasattr(lib.arg, "message_id") => lib.result.val.message_id = PyNone
           /\ (~hasattr(lib.arg, "exception") /\ ~hasattr(lib.arg, "error"))
                  => lib.result.val.exception = PyNone

C19_Witness ==
    /\ lib.op = "from_fcm_response"
    /\ lib.arg = SdkObject(<< <<PyStr("success"), PyStr("tRuE")>> >>)
    /\ lib.result = Ok([ t |-> "Response", success |-> PyBool(TRUE),
                         message_id |-> PyNone, exception |-> PyNone ])

\* the attribute of an SDK object, or the default when it is missing
AttrOr(obj, name, default) ==
    IF hasattr(obj, name) THEN dict_get(obj.attrs, PyStr(name)) ELSE default

\* C20: BatchResponse.from_fcm_response takes success_count and failure_count
\* as the SDK response gives them (0 when the attribute is missing), whatever
\* the items are, and its responses list holds one Response per SDK item, in
\* the order of the items.
C20_CountsVerbatimItemsInOrder ==
    lib.op = "batch_from_fcm_response"
        => LET items == AttrOr(lib.arg, "responses", PyList(<<>>)).l
           IN /\ lib.result.ok
              /\ lib.result.val.success_count = AttrOr(lib.arg, "success_count", PyInt(0))
              /\ lib.result.val.failure_count = AttrOr(lib.arg, "failure_count", PyInt(0))
              /\ Len(lib.result.val.responses.l) = Len(items)
              /\ \A i \in 1..Len(items) :
                    Ok(lib.result.val.responses.l[i]) = Response_from_fcm_response(items[i])

\* counts 5 and 7 reported for two items, the failed one first
C20_Witness ==
    /\ lib.op = "batch_from_fcm_response"
    /\ lib.result.ok
    /\ lib.result.val.success_count = PyInt(5)
    /\ lib.result.val.failure_count = PyInt(7)
    /\ Len(lib.result.val.responses.l) = 2
    /\ lib.result.val.responses.l[1].success = PyBool(FALSE)
    /\ lib.result.val.responses.l[2].message_id = PyStr("9")

\* --------------------------------------------- claims: topic management

ServerTopicCall == srv.op \in {"subscribe_to_topic", "unsubscribe_from_topic"}

\* C21: for every SDK topic-management response r, subscribe_to_topic and
\* unsubscribe_from_topic of the server return a TopicManagementResponse whose
\* success_count, failure_count and errors are those of r, also when r reports
\* a non-empty list of per-token error objects.
C21_TopicResponsePassedThrough ==
    (ServerTopicCall /\ srv.sdk_outcome.ok)
        => /\ srv.result.ok
           /\ srv.result.val.t = "TopicManagementResponse"
           /\ srv.result.val.success_count = getattr(srv.sdk_outcome.val, "success_count").val
           /\ srv.result.val.failure_count = getattr(srv.sdk_outcome.val, "failure_count").val
           /\ srv.result.val.errors = getattr(srv.sdk_outcome.val, "errors").val

\* ------------------------------------------------- claims: compilation

\* a string, or an int (True and False are ints in Python); the model has no
\* float values
IsStrIntFloat(v) == v.t \in {"str", "int", "bool", "float"}

\* C22: compiling a data mapping keeps exactly the pairs whose key and value
\* are both a string, int or float, in their order, each key and value as its
\* string form; every other pair is dropped without raising, and absent data
\* compiles to an empty mapping.
C22_DataKeepsPrimitivesAsStrings ==
    lib.op = "process_data"
        => IF lib.arg.t # "dict" THEN lib.result = PyDict(<<>>)
           ELSE LET kept == SelectSeq(lib.arg.items,
                                LAMBDA p : IsStrIntFloat(p[1]) /\ IsStrIntFloat(p[2]))
                IN lib.result = PyDict([i \in 1..Len(kept) |->
                                    <<PyStr(str(kept[i][1])), PyStr(str(kept[i][2]))>>])

\* {7: [1], "count": 3} compiles to {"count": "3"}
C22_Witness ==
    /\ lib.op = "process_data"
    /\ lib.arg = PyDict(<< <<PyInt(7), PyList(<<PyInt(1)>>)>>,
                           <<PyStr("count"), PyInt(3)>> >>)
    /\ lib.result = PyDict(<< <<PyStr("count"), PyStr("3")>> >>)

\* ---------------------------------------------------- claims: ActionMap

\* the endpoint is a string that is not an absolute URL, and no full_url was
\* given
RelativeEndpoint(self) ==
    /\ self._full_url = PyNone
    /\ self.endpoint.t = "str"
    /\ ~StartsWith(self.endpoint.s, "http://")
    /\ ~StartsWith(self.endpoint.s, "https://")

\* C23: for an ActionMap with a non-absolute endpoint and no explicit full_url,
\* full_url is {api_origin}/endpoint when is_api_endpoint is true, whatever the
\* mode, otherwise {app_origin}/endpoint in debug mode and
\* {published_origin}/endpoint in published mode, with one leading slash of the
\* endpoint removed; the mode is the one at the time full_url is read, not the
\* one at construction.
C23_FullUrlOriginAtRead ==
    (lib.op = "full_url" /\ RelativeEndpoint(lib.self))
        => LET e == lib.self.endpoint.s
               endpoint == IF SubSeq(e, 1, 1) = "/" THEN SubSeq(e, 2, Len(e)) ELSE e
               origin == IF lib.self.is_api_endpoint = PyBool(TRUE)
                         THEN "https://app.example/_/api"
                         ELSE IF lib.env = Published THEN "https://app.example"
                         ELSE "https://debug.example"
           IN lib.url = Ok(PyStr(origin \o "/" \o endpoint))

\* constructed in debug mode, read in published mode
C23_Witness ==
    /\ lib.op = "full_url"
    /\ lib.arg.endpoint = PyStr("//foo")
    /\ lib.arg.full_url = PyNone
    /\ lib.arg.is_api_endpoint = PyNone
    /\ lib.built_in # Published
    /\ lib.env = Published
    /\ lib.url = Ok(PyStr("https://app.example//foo"))

\* C29: every ActionMap that is constructed has a resolvable full_url:
\* construction fails when neither endpoint nor full_url is a string, and
\* reading full_url of a constructed ActionMap, also of one built from an
\* empty endpoint, never raises: it returns the full_url given, or else the
\* URL derived from the endpoint.
C29_ConstructedHasFullUrl ==
    /\ (lib.op = "ActionMap" /\ lib.arg.endpoint.t # "str" /\ lib.arg.full_url.t # "str")
           => ~lib.result.ok
    /\ lib.op = "full_url"
           => /\ lib.url.ok
              /\ lib.url.val.t = "str"
              /\ lib.arg.full_url.t = "str" => lib.url.val = lib.arg.full_url
              /\ lib.arg.full_url.t # "str"
                     => lib.url = ActionMap_build_url_from_endpoint(lib.self, lib.env)

\* ----------------------------------------------- claims: FirebaseConfig

\* C25: the construction of a FirebaseConfig succeeds only when all seven
\* fields are non-empty strings: with a field that is None, not a string or
\* the empty string it raises and no FirebaseConfig exists.
C25_ConfigNeedsNonEmptyStrings ==
    lib.op = "FirebaseConfig"
        => (lib.result.ok
               => \A i \in 1..7 : lib.arg[i].t = "str" /\ lib.arg[i].s # "")

\* ------------------------------------------------- claims: notification

\* the notification of the object constructed last
Notification ==
    IF lib.cls = "SimpleMessage" THEN lib.result.val.webpush.notification
    ELSE lib.result.val

\* C26: WebpushNotification, and SimpleMessage through it, accepts a vibrate
\* pattern given as a non-empty list of integers and stores it unchanged on
\* the notification.
C26_VibrateIntsAccepted ==
    (/\ lib.op = "notification"
     /\ lib.arg.vibrate.t = "list"
     /\ Len(lib.arg.vibrate.l) > 0
     /\ \A i \in 1..Len(lib.arg.vibrate.l) : lib.arg.vibrate.l[i].t = "int")
        => lib.result.ok /\ Notification.vibrate = lib.arg.vibrate

\* ---------------------------------------------- claims: compiled tree

\* no object of the message model is inside the SDK value v, at any depth
RECURSIVE NoLocalObject(_)
NoLocalObject(v) ==
    CASE v.t \in ModelClasses -> FALSE
      [] v.t = "messaging.Message" ->
             NoLocalObject(v.data) /\ NoLocalObject(v.webpush) /\ NoLocalObject(v.fcm_options)
      [] v.t = "messaging.MulticastMessage" ->
             NoLocalObject(v.data) /\ NoLocalObject(v.webpush) /\ NoLocalObject(v.fcm_options)
      [] v.t \in { "messaging.WebpushConfig", "messaging.WebpushNotification",
                   "messaging.WebpushNotificationAction", "messaging.WebpushFCMOptions" } ->
             NoLocalObject(v.kw)
      [] v.t = "dict" -> \A i \in 1..Len(v.items) : NoLocalObject(v.items[i][2])
      [] v.t = "list" -> \A i \in 1..Len(v.l) : NoLocalObject(v.l[i])
      [] OTHER -> TRUE

\* the SDK messages handed to the SDK by the last call
CompiledForSdk ==
    IF Accepted("send_multicast") THEN <<srv.calls[1].arg>> ELSE CompiledMessages

\* the messages of the last call that reached the SDK
GivenToCompile ==
    IF Accepted("send_multicast") THEN <<srv.arg>> ELSE SentMessages

\* C27: compilation translates every stage of the message tree into the SDK
\* object, or into None when the field of the message is unset, and does not
\* raise; no object of the message model remains anywhere in the compiled SDK
\* message.
C27_CompiledTreeIsSdkNative ==
    /\ Len(CompiledForSdk) = Len(GivenToCompile)
    /\ \A i \in 1..Len(CompiledForSdk) :
          LET message == GivenToCompile[i]
              compiled == CompiledForSdk[i]
          IN /\ message.webpush = PyNone => compiled.webpush = PyNone
             /\ message.webpush # PyNone => compiled.webpush.t = "messaging.WebpushConfig"
             /\ message.fcm_options = PyNone => compiled.fcm_options = PyNone
             /\ message.fcm_options # PyNone
                    => compiled.fcm_options.t = "messaging.WebpushFCMOptions"
             /\ NoLocalObject(compiled)

\* ------------------------------------------- claims: credential files

C28_ConcurrentInitializeOnce ==
    /\ init_app_calls <= 1
    /\ \A p \in Procs :
          proc[p].result # Raise(PyException("ValueError",
                                             "The default Firebase app already exists."))
    /\ ~(\A p \in Procs : proc[p].pc = "initializing")

\* ------------------------------------------------ claims: credentials

\* C24: the credentials round-trip without loss: for every credentials object
\* c, from_json_string of the JSON text of c.to_dict(), also with a comma put
\* before the closing brace, gives an object equal to c in all eleven fields,
\* whatever characters the values of the fields contain.
C24_CredentialsRoundTrip ==
    lib.op = "from_json_string" => lib.result = Ok(lib.arg)

====
